---- MODULE Spec2Model ----
(***************************************************************************)
(* Library management business logic (library_service.py): the catalog,    *)
(* the borrow / return lifecycle of a loan and the storage it drives.      *)
(*                                                                         *)
(* Python values are modelled as follows.                                  *)
(*   str        a sequence of one-character strings                        *)
(*   None       the record PyNone; a str argument s is PyStr(s)            *)
(*   datetime   a natural number of clock ticks, TicksPerDay ticks a day   *)
(*   Optional   a sequence of length 0 (None / SQL NULL) or 1              *)
(* The tables of the database are sequences of rows in insertion order.    *)
(* inflight holds the borrow calls that have started and not yet returned,  *)
(* each with its position and its local variables.                         *)
(***************************************************************************)
EXTENDS Integers, Sequences, FiniteSets, TLC

VARIABLES books, borrow_records, now, last, inflight

vars == <<books, borrow_records, now, last, inflight>>

(***************************************************************************)
(* Bounds of the model.                                                    *)
(***************************************************************************)
MaxRecords == 2
MaxNow == 1
MaxLimitRecords == 6
MaxFeeRecords == 1
MaxPairRecords == 2
MaxDaysOverdue == 60
MaxCatalogRecords == 2
MaxSearchRecords == 1
MaxReportRecords == 2
MaxTypedRecords == 2
TicksPerDay == 2

(***************************************************************************)
(* Program constants.                                                      *)
(***************************************************************************)
LoanDays == 14
BorrowLimit == 5
PatronIdLen == 6
IsbnLen == 13
MaxTitleLen == 200
MaxAuthorLen == 100
\* the fee policy, in cents: 0.50 a day for the first 7 days overdue, 1.00 a
\* day after them, 15.00 at most
FeeFirstRate == 50
FeeFirstDays == 7
FeeLaterRate == 100
FeeCap == 1500

(***************************************************************************)
(* Python values and string helpers.                                       *)
(***************************************************************************)
PyNone == [t |-> "None"]
PyStr(s) == [t |-> "str", v |-> s]
PyInt(n) == [t |-> "int", v |-> n]
\* a float whose value is the whole number n
PyFloat(n) == [t |-> "float", v |-> n]

\* the decimal digits, by value
DecimalDigits == <<"0", "1", "2", "3", "4", "5", "6", "7", "8", "9">>

\* the characters c up to U+00FF with c.isdigit(): the decimal digits and the
\* superscripts two, three and one
Digits == {"0", "1", "2", "3", "4", "5", "6", "7", "8", "9", "²", "³", "¹"}

\* the characters up to U+00FF that str.strip() removes: tab, newline,
\* vertical tab, form feed, carriage return, U+001C to U+001F, the blank,
\* U+0085 and the no-break space U+00A0
Whitespace == {"\t", "\n", "", "\f", "\r", "", "", "", "", " ", "", " "}

Rep(c, n) == [i \in 1..n |-> c]

SetMin(S) == CHOOSE x \in S : \A y \in S : x <= y
SetMax(S) == CHOOSE x \in S : \A y \in S : x >= y

\* truthiness of an argument: None, "", 0 and 0.0 are falsy
Truthy(x) ==
  IF x.t = "str" THEN x.v # <<>>
  ELSE IF x.t \in {"int", "float"} THEN x.v # 0
  ELSE FALSE

\* the decimal digits of a natural number
RECURSIVE Decimal(_)
Decimal(n) ==
  IF n < 10 THEN <<DecimalDigits[n + 1]>>
  ELSE Decimal(n \div 10) \o <<DecimalDigits[(n % 10) + 1]>>

\* a natural number in decimal, with zeros in front up to the given width
RECURSIVE Padded(_, _)
Padded(n, width) ==
  IF Len(Decimal(n)) >= width THEN Decimal(n)
  ELSE <<"0">> \o Padded(n, width - 1)

\* str.isdigit(): non-empty and every character a digit
isdigit(s) == s # <<>> /\ \A i \in 1..Len(s) : s[i] \in Digits

\* mutant: only the leading whitespace is dropped
strip_LeftOnly(s) ==
  LET n == Len(s)
      IsFirst(i) == s[i] \notin Whitespace /\ \A j \in 1..(i - 1) : s[j] \in Whitespace
  IN IF \A i \in 1..n : s[i] \in Whitespace
     THEN <<>>
     ELSE SubSeq(s, CHOOSE i \in 1..n : IsFirst(i), n)

\* str.strip(): drop leading and trailing whitespace
strip(s) ==
  LET n == Len(s)
      IsFirst(i) == s[i] \notin Whitespace /\ \A j \in 1..(i - 1) : s[j] \in Whitespace
      IsLast(i) == s[i] \notin Whitespace /\ \A j \in (i + 1)..n : s[j] \in Whitespace
  IN IF \A i \in 1..n : s[i] \in Whitespace
     THEN <<>>
     ELSE SubSeq(s, CHOOSE i \in 1..n : IsFirst(i), CHOOSE i \in 1..n : IsLast(i))

\* str(x): a string is itself, None reads "None", an int is its decimal
\* text and a float of a whole value (below 1e16) that text and ".0"
StrOf(x) ==
  LET Signed(n) == IF n < 0 THEN <<"-">> \o Decimal(-n) ELSE Decimal(n)
  IN IF x.t = "str" THEN x.v
     ELSE IF x.t = "int" THEN Signed(x.v)
     ELSE IF x.t = "float" THEN Signed(x.v) \o <<".", "0">>
     ELSE <<"N", "o", "n", "e">>

\* x or "": a falsy argument becomes the empty string
OrEmpty(x) == IF Truthy(x) THEN x ELSE PyStr(<<>>)

\* str(patron_id or "")
StrOrEmpty(x) == StrOf(OrEmpty(x))

\* timedelta(days=n) in clock ticks
timedelta(days) == days * TicksPerDay

\* datetime.date(): the calendar day of an instant, its time of day dropped
date(t) == t \div TicksPerDay

Max(a, b) == IF a >= b THEN a ELSE b
Min(a, b) == IF a <= b THEN a ELSE b

\* the calendar year in which the clock starts: instant 0 is the midnight
\* that begins its first of January
EpochYear == 2024

\* the calendar date d days after the first day of month m of year y
RECURSIVE CalendarDate(_, _, _)
CalendarDate(y, m, d) ==
  LET IsLeap == (y % 4 = 0 /\ y % 100 # 0) \/ y % 400 = 0
      DaysInMonth ==
        IF m = 2 THEN (IF IsLeap THEN 29 ELSE 28)
        ELSE IF m \in {4, 6, 9, 11} THEN 30
        ELSE 31
  IN IF d < DaysInMonth THEN [year |-> y, month |-> m, day |-> d + 1]
     ELSE IF m = 12 THEN CalendarDate(y + 1, 1, d - DaysInMonth)
     ELSE CalendarDate(y, m + 1, d - DaysInMonth)

\* strftime("%Y-%m-%d") of a datetime and [:10] of its ISO text: the calendar
\* day as text, the time of day dropped
DateText(t) ==
  LET c == CalendarDate(EpochYear, 1, date(t))
  IN Padded(c.year, 4) \o <<"-">> \o Padded(c.month, 2) \o <<"-">> \o Padded(c.day, 2)

\* f"{fee:.2f}" of an amount in cents
MoneyText(cents) == Decimal(cents \div 100) \o <<".">> \o Padded(cents % 100, 2)

(***************************************************************************)
(* Result messages of the operations: Python strings.                      *)
(***************************************************************************)
\* "Title is required."
MsgTitleRequired ==
  <<"T", "i", "t", "l", "e", " ", "i", "s", " ", "r", "e", "q", "u", "i",
    "r", "e", "d", ".">>

\* "Title must be less than 200 characters."
MsgTitleTooLong ==
  <<"T", "i", "t", "l", "e", " ", "m", "u", "s", "t", " ", "b", "e", " ",
    "l", "e", "s", "s", " ", "t", "h", "a", "n", " ", "2", "0", "0", " ",
    "c", "h", "a", "r", "a", "c", "t", "e", "r", "s", ".">>

\* "Author is required."
MsgAuthorRequired ==
  <<"A", "u", "t", "h", "o", "r", " ", "i", "s", " ", "r", "e", "q", "u",
    "i", "r", "e", "d", ".">>

\* "Author must be less than 100 characters."
MsgAuthorTooLong ==
  <<"A", "u", "t", "h", "o", "r", " ", "m", "u", "s", "t", " ", "b", "e",
    " ", "l", "e", "s", "s", " ", "t", "h", "a", "n", " ", "1", "0", "0",
    " ", "c", "h", "a", "r", "a", "c", "t", "e", "r", "s", ".">>

\* "ISBN must be exactly 13 digits."
MsgIsbnLength ==
  <<"I", "S", "B", "N", " ", "m", "u", "s", "t", " ", "b", "e", " ", "e",
    "x", "a", "c", "t", "l", "y", " ", "1", "3", " ", "d", "i", "g", "i",
    "t", "s", ".">>

\* "Total copies must be a positive integer."
MsgCopies ==
  <<"T", "o", "t", "a", "l", " ", "c", "o", "p", "i", "e", "s", " ", "m",
    "u", "s", "t", " ", "b", "e", " ", "a", " ", "p", "o", "s", "i", "t",
    "i", "v", "e", " ", "i", "n", "t", "e", "g", "e", "r", ".">>

\* "A book with this ISBN already exists."
MsgDuplicate ==
  <<"A", " ", "b", "o", "o", "k", " ", "w", "i", "t", "h", " ", "t", "h",
    "i", "s", " ", "I", "S", "B", "N", " ", "a", "l", "r", "e", "a", "d",
    "y", " ", "e", "x", "i", "s", "t", "s", ".">>

\* f'Book "{title.strip()}" has been successfully added to the catalog.'
MsgAdded(title) ==
  <<"B", "o", "o", "k", " ", "\"">>
    \o strip(title)
    \o
  <<"\"", " ", "h", "a", "s", " ", "b", "e", "e", "n", " ", "s", "u", "c",
    "c", "e", "s", "s", "f", "u", "l", "l", "y", " ", "a", "d", "d", "e",
    "d", " ", "t", "o", " ", "t", "h", "e", " ", "c", "a", "t", "a", "l",
    "o", "g", ".">>

\* "Database error occurred while adding the book."
MsgAddDbError ==
  <<"D", "a", "t", "a", "b", "a", "s", "e", " ", "e", "r", "r", "o", "r",
    " ", "o", "c", "c", "u", "r", "r", "e", "d", " ", "w", "h", "i", "l",
    "e", " ", "a", "d", "d", "i", "n", "g", " ", "t", "h", "e", " ", "b",
    "o", "o", "k", ".">>

\* "Invalid patron ID. Must be exactly 6 digits."
MsgBorrowInvalidPatron ==
  <<"I", "n", "v", "a", "l", "i", "d", " ", "p", "a", "t", "r", "o", "n",
    " ", "I", "D", ".", " ", "M", "u", "s", "t", " ", "b", "e", " ", "e",
    "x", "a", "c", "t", "l", "y", " ", "6", " ", "d", "i", "g", "i", "t",
    "s", ".">>

\* "Book not found."
MsgBookNotFound ==
  <<"B", "o", "o", "k", " ", "n", "o", "t", " ", "f", "o", "u", "n", "d",
    ".">>

\* "This book is currently not available."
MsgNotAvailable ==
  <<"T", "h", "i", "s", " ", "b", "o", "o", "k", " ", "i", "s", " ", "c",
    "u", "r", "r", "e", "n", "t", "l", "y", " ", "n", "o", "t", " ", "a",
    "v", "a", "i", "l", "a", "b", "l", "e", ".">>

\* "You have reached the maximum borrowing limit of 5 books."
MsgLimit ==
  <<"Y", "o", "u", " ", "h", "a", "v", "e", " ", "r", "e", "a", "c", "h",
    "e", "d", " ", "t", "h", "e", " ", "m", "a", "x", "i", "m", "u", "m",
    " ", "b", "o", "r", "r", "o", "w", "i", "n", "g", " ", "l", "i", "m",
    "i", "t", " ", "o", "f", " ", "5", " ", "b", "o", "o", "k", "s", ".">>

\* "Database error occurred while creating borrow record."
MsgBorrowRecordDbError ==
  <<"D", "a", "t", "a", "b", "a", "s", "e", " ", "e", "r", "r", "o", "r",
    " ", "o", "c", "c", "u", "r", "r", "e", "d", " ", "w", "h", "i", "l",
    "e", " ", "c", "r", "e", "a", "t", "i", "n", "g", " ", "b", "o", "r",
    "r", "o", "w", " ", "r", "e", "c", "o", "r", "d", ".">>

\* "Database error occurred while updating book availability."
MsgBorrowAvailDbError ==
  <<"D", "a", "t", "a", "b", "a", "s", "e", " ", "e", "r", "r", "o", "r",
    " ", "o", "c", "c", "u", "r", "r", "e", "d", " ", "w", "h", "i", "l",
    "e", " ", "u", "p", "d", "a", "t", "i", "n", "g", " ", "b", "o", "o",
    "k", " ", "a", "v", "a", "i", "l", "a", "b", "i", "l", "i", "t", "y",
    ".">>

\* f'Successfully borrowed "{book["title"]}". Due date:
\* {due_date.strftime("%Y-%m-%d")}.'
MsgBorrowed(title, due_date) ==
  <<"S", "u", "c", "c", "e", "s", "s", "f", "u", "l", "l", "y", " ", "b",
    "o", "r", "r", "o", "w", "e", "d", " ", "\"">>
    \o title
    \o
  <<"\"", ".", " ", "D", "u", "e", " ", "d", "a", "t", "e", ":", " ">>
    \o DateText(due_date) \o <<".">>

\* "Invalid patron ID (must be 6 digits)."
MsgReturnInvalidPatron ==
  <<"I", "n", "v", "a", "l", "i", "d", " ", "p", "a", "t", "r", "o", "n",
    " ", "I", "D", " ", "(", "m", "u", "s", "t", " ", "b", "e", " ", "6",
    " ", "d", "i", "g", "i", "t", "s", ")", ".">>

\* "No active borrow record for this patron and book."
MsgNoActiveBorrow ==
  <<"N", "o", " ", "a", "c", "t", "i", "v", "e", " ", "b", "o", "r", "r",
    "o", "w", " ", "r", "e", "c", "o", "r", "d", " ", "f", "o", "r", " ",
    "t", "h", "i", "s", " ", "p", "a", "t", "r", "o", "n", " ", "a", "n",
    "d", " ", "b", "o", "o", "k", ".">>

\* "Available copies cannot exceed total copies."
MsgCopiesExceed ==
  <<"A", "v", "a", "i", "l", "a", "b", "l", "e", " ", "c", "o", "p", "i",
    "e", "s", " ", "c", "a", "n", "n", "o", "t", " ", "e", "x", "c", "e",
    "e", "d", " ", "t", "o", "t", "a", "l", " ", "c", "o", "p", "i", "e",
    "s", ".">>

\* "Could not update return date."
MsgReturnDateDbError ==
  <<"C", "o", "u", "l", "d", " ", "n", "o", "t", " ", "u", "p", "d", "a",
    "t", "e", " ", "r", "e", "t", "u", "r", "n", " ", "d", "a", "t", "e",
    ".">>

\* "Could not update book availability."
MsgReturnAvailDbError ==
  <<"C", "o", "u", "l", "d", " ", "n", "o", "t", " ", "u", "p", "d", "a",
    "t", "e", " ", "b", "o", "o", "k", " ", "a", "v", "a", "i", "l", "a",
    "b", "i", "l", "i", "t", "y", ".">>

\* "Book returned successfully.", and f" Late fee: ${fee:.2f}" after it
\* if fee > 0
MsgReturned(fee) ==
  <<"B", "o", "o", "k", " ", "r", "e", "t", "u", "r", "n", "e", "d", " ",
    "s", "u", "c", "c", "e", "s", "s", "f", "u", "l", "l", "y", ".">>
    \o (IF fee > 0
        THEN
        <<" ", "L", "a", "t", "e", " ", "f", "e", "e", ":", " ", "$">>
               \o MoneyText(fee)
        ELSE <<>>)

(***************************************************************************)
(* The storage collaborator (module database).  A write that reports       *)
(* failure leaves its table as it was.                                     *)
(***************************************************************************)
\* the row of the book with this id, or None
get_book_by_id(bks, book_id) ==
  LET hit == {i \in 1..Len(bks) : bks[i].id = book_id}
  IN IF hit = {} THEN <<>> ELSE <<bks[SetMin(hit)]>>

\* the row of the book with exactly this ISBN, or None
get_book_by_isbn(bks, isbn) ==
  LET hit == {i \in 1..Len(bks) : bks[i].isbn = isbn}
  IN IF hit = {} THEN <<>> ELSE <<bks[SetMin(hit)]>>

\* a new row at the end of the books table, its id assigned by the storage
insert_book(bks, title, author, isbn, total_copies, available_copies) ==
  Append(bks, [id |-> Len(bks) + 1, title |-> title, author |-> author,
               isbn |-> isbn, total_copies |-> total_copies,
               available_copies |-> available_copies])

\* mutant: the change is applied to every book
update_book_availability_EveryBook(bks, book_id, change) ==
  [i \in 1..Len(bks) |-> [bks[i] EXCEPT !.available_copies = @ + change]]

\* available_copies of the book adjusted by a signed delta
update_book_availability(bks, book_id, change) ==
  [i \in 1..Len(bks) |->
     IF bks[i].id = book_id
     THEN [bks[i] EXCEPT !.available_copies = @ + change]
     ELSE bks[i]]

\* the indexes of the open records of a patron
OpenOfPatron(recs, patron_id) ==
  {i \in 1..Len(recs) : recs[i].patron_id = patron_id /\ recs[i].return_date = <<>>}

\* the number of open (unreturned) records of a patron
get_patron_borrow_count(recs, patron_id) == Cardinality(OpenOfPatron(recs, patron_id))

\* a new open record at the end of the borrow_records table
insert_borrow_record(recs, patron_id, book_id, borrow_date, due_date) ==
  Append(recs, [patron_id |-> patron_id, book_id |-> book_id,
                borrow_date |-> borrow_date, due_date |-> due_date,
                return_date |-> <<>>])

\* the indexes of the open records of a (patron, book) pair
OpenOfPair(recs, patron_id, book_id) ==
  {i \in 1..Len(recs) : /\ recs[i].patron_id = patron_id
                        /\ recs[i].book_id = book_id
                        /\ recs[i].return_date = <<>>}

\* mutant: the update forgets "AND return_date IS NULL" and rewrites every
\* record of the pair
update_borrow_record_return_date_AnyStatus(recs, patron_id, book_id, return_date) ==
  {[i \in 1..Len(recs) |->
      IF recs[i].patron_id = patron_id /\ recs[i].book_id = book_id
      THEN [recs[i] EXCEPT !.return_date = <<return_date>>]
      ELSE recs[i]]}

\* the tables that closing one open record of the pair can produce: which
\* open record is closed when there are several is left to the storage
update_borrow_record_return_date(recs, patron_id, book_id, return_date) ==
  IF OpenOfPair(recs, patron_id, book_id) = {}
  THEN {recs}
  ELSE {[recs EXCEPT ![i].return_date = <<return_date>>] :
          i \in OpenOfPair(recs, patron_id, book_id)}

(***************************************************************************)
(* The record of the operation that ran last: its arguments, its result    *)
(* (success flag and message) and the storage calls it made, in order.     *)
(***************************************************************************)
LoanResult(op, patron_id, book_id, ok, msg, calls) ==
  [op |-> op, patron_id |-> patron_id, book_id |-> book_id,
   ok |-> ok, msg |-> msg, calls |-> calls]

\* the result of a successful return_book: fee is the fee_amount the lookup
\* gave, late_fee the amount in the " Late fee: $X.XX" the message ends with,
\* empty when the message has no such part
ReturnedResult(patron_id, book_id, fee, calls) ==
  [op |-> "return", patron_id |-> patron_id, book_id |-> book_id,
   ok |-> TRUE, msg |-> MsgReturned(fee), fee |-> fee,
   late_fee |-> IF fee > 0 THEN <<fee>> ELSE <<>>, calls |-> calls]

\* the result of a fee lookup: the row it was computed from (empty when the
\* pair has no record) and the returned dictionary
FeeResult(patron_id, book_id, row, info) ==
  [op |-> "late_fee", patron_id |-> patron_id, book_id |-> book_id,
   row |-> row, fee_amount |-> info.fee_amount, days_overdue |-> info.days_overdue]

AddResult(title, author, isbn, total_copies, ok, msg, calls) ==
  [op |-> "add_book", title |-> title, author |-> author, isbn |-> isbn,
   total_copies |-> total_copies, ok |-> ok, msg |-> msg, calls |-> calls]

(***************************************************************************)
(* add_book_to_catalog(title, author, isbn, total_copies).  insert_ok is   *)
(* the outcome the storage reports for insert_book.                        *)
(***************************************************************************)
\* not title or not title.strip()
TitleMissing(title) == title = <<>> \/ strip(title) = <<>>

\* mutant: a title of exactly 200 characters is refused
TitleTooLong_AtLimit(title) == Len(strip(title)) >= MaxTitleLen

\* len(title.strip()) > 200
TitleTooLong(title) == Len(strip(title)) > MaxTitleLen

\* not author or not author.strip()
AuthorMissing(author) == author = <<>> \/ strip(author) = <<>>

\* len(author.strip()) > 100
AuthorTooLong(author) == Len(strip(author)) > MaxAuthorLen

\* len(isbn) != 13
IsbnLengthWrong(isbn) == Len(isbn) # IsbnLen

\* not isinstance(total_copies, int) or total_copies <= 0
CopiesInvalid(total_copies) == total_copies.t # "int" \/ total_copies.v <= 0

\* mutant: the duplicate test is missing
DuplicateIsbn_Never(existing) == FALSE

\* if existing:
DuplicateIsbn(existing) == existing # <<>>

add_book_to_catalog(title, author, isbn, total_copies, insert_ok) ==
  LET Fail(msg, calls) ==
        /\ UNCHANGED <<books, borrow_records, now, inflight>>
        /\ last' = AddResult(title, author, isbn, total_copies, FALSE, msg, calls)
  IN
  /\ IF TitleMissing(title)
       THEN Fail(MsgTitleRequired, <<>>)
     ELSE IF TitleTooLong(title)
       THEN Fail(MsgTitleTooLong, <<>>)
     ELSE IF AuthorMissing(author)
       THEN Fail(MsgAuthorRequired, <<>>)
     ELSE IF AuthorTooLong(author)
       THEN Fail(MsgAuthorTooLong, <<>>)
     ELSE IF IsbnLengthWrong(isbn)
       THEN Fail(MsgIsbnLength, <<>>)
     ELSE IF CopiesInvalid(total_copies)
       THEN Fail(MsgCopies, <<>>)
     ELSE IF DuplicateIsbn(get_book_by_isbn(books, isbn))
       THEN Fail(MsgDuplicate, <<"get_book_by_isbn">>)
     ELSE IF ~insert_ok
       THEN Fail(MsgAddDbError, <<"get_book_by_isbn", "insert_book">>)
     ELSE
       /\ books' = insert_book(books, strip(title), strip(author), isbn,
                               total_copies.v, total_copies.v)
       /\ UNCHANGED <<borrow_records, now, inflight>>
       /\ last' = AddResult(title, author, isbn, total_copies, TRUE, MsgAdded(title),
                            <<"get_book_by_isbn", "insert_book">>)

(***************************************************************************)
(* get_catalog_view().                                                     *)
(***************************************************************************)
\* database.get_all_books(): the rows of the books table in insertion order
get_all_books(bks) == bks

\* mutant: a book with no copy left still offers "Borrow"
ActionsOf_ZeroToo(b) == IF b.available_copies >= 0 THEN "Borrow" ELSE ""

\* "Borrow" if b["available_copies"] > 0 else ""
ActionsOf(b) == IF b.available_copies > 0 THEN "Borrow" ELSE ""

get_catalog_view(bks) ==
  [i \in 1..Len(get_all_books(bks)) |->
     LET b == get_all_books(bks)[i]
     IN [book_id |-> b.id, title |-> b.title, author |-> b.author,
         isbn |-> b.isbn, available_copies |-> b.available_copies,
         total_copies |-> b.total_copies, actions |-> ActionsOf(b)]]

(***************************************************************************)
(* search_books_in_catalog(search_term, search_type).                      *)
(***************************************************************************)
\* the characters c up to U+00FF with c.lower() # c, the capital letters A to Z
\* and U+00C0 to U+00DE without the multiplication sign, each with c.lower()
LowerOf ==
  "A" :> "a" @@ "B" :> "b" @@ "C" :> "c" @@ "D" :> "d" @@ "E" :> "e" @@
  "F" :> "f" @@ "G" :> "g" @@ "H" :> "h" @@ "I" :> "i" @@ "J" :> "j" @@
  "K" :> "k" @@ "L" :> "l" @@ "M" :> "m" @@ "N" :> "n" @@ "O" :> "o" @@
  "P" :> "p" @@ "Q" :> "q" @@ "R" :> "r" @@ "S" :> "s" @@ "T" :> "t" @@
  "U" :> "u" @@ "V" :> "v" @@ "W" :> "w" @@ "X" :> "x" @@ "Y" :> "y" @@
  "Z" :> "z" @@ "À" :> "à" @@ "Á" :> "á" @@ "Â" :> "â" @@ "Ã" :> "ã" @@
  "Ä" :> "ä" @@ "Å" :> "å" @@ "Æ" :> "æ" @@ "Ç" :> "ç" @@ "È" :> "è" @@
  "É" :> "é" @@ "Ê" :> "ê" @@ "Ë" :> "ë" @@ "Ì" :> "ì" @@ "Í" :> "í" @@
  "Î" :> "î" @@ "Ï" :> "ï" @@ "Ð" :> "ð" @@ "Ñ" :> "ñ" @@ "Ò" :> "ò" @@
  "Ó" :> "ó" @@ "Ô" :> "ô" @@ "Õ" :> "õ" @@ "Ö" :> "ö" @@ "Ø" :> "ø" @@
  "Ù" :> "ù" @@ "Ú" :> "ú" @@ "Û" :> "û" @@ "Ü" :> "ü" @@ "Ý" :> "ý" @@
  "Þ" :> "þ"

\* c.lower()
LowerChar(c) == IF c \in DOMAIN LowerOf THEN LowerOf[c] ELSE c

lower(s) == [i \in 1..Len(s) |-> LowerChar(s[i])]

\* needle in hay, for strings: the empty string is in every string
Contains(hay, needle) ==
  \E i \in 0..(Len(hay) - Len(needle)) : SubSeq(hay, i + 1, i + Len(needle)) = needle

\* (search_term or "").strip() and (search_type or "").strip(): an argument
\* that is a number other than 0 is truthy and has no strip, the call raises
\* AttributeError
SearchRaises(search_term, search_type) ==
  OrEmpty(search_term).t # "str" \/ OrEmpty(search_type).t # "str"

\* mutant: the term is not trimmed
SearchTerm_Untrimmed(search_term) == OrEmpty(search_term).v

\* term = (search_term or "").strip()
SearchTerm(search_term) == strip(OrEmpty(search_term).v)

\* mutant: the type is trimmed but its case is kept
SearchType_CaseKept(search_type) == strip(OrEmpty(search_type).v)

\* stype = (search_type or "").strip().lower()
SearchType(search_type) == lower(strip(OrEmpty(search_type).v))

\* mutant: the comparison ignores case in the term only
TextMatches_FieldCaseKept(term, field) == Contains(field, lower(term))

\* term.lower() in b["title"].lower()
TextMatches(term, field) == Contains(lower(field), lower(term))

\* the dictionary built for a book that matched
SearchRow(b) ==
  [book_id |-> b.id, title |-> b.title, author |-> b.author, isbn |-> b.isbn,
   available_copies |-> b.available_copies, total_copies |-> b.total_copies,
   actions |-> IF b.available_copies > 0 THEN "Borrow" ELSE ""]

\* mutant: an unknown type searches the titles
KnownType_TitleByDefault(stype) == TRUE

\* stype is one of the three branches before the final else
KnownType(stype) ==
  stype \in {<<"i", "s", "b", "n">>, <<"t", "i", "t", "l", "e">>,
            <<"a", "u", "t", "h", "o", "r">>}

search_books_in_catalog(bks, search_term, search_type) ==
  LET term == SearchTerm(search_term)
      stype == SearchType(search_type)
      all == get_all_books(bks)
      Hit(b) ==
        IF stype = <<"i", "s", "b", "n">> THEN b.isbn = term
        ELSE IF stype = <<"a", "u", "t", "h", "o", "r">> THEN TextMatches(term, b.author)
        ELSE TextMatches(term, b.title)
      found == SelectSeq(all, Hit)
  IN IF ~KnownType(stype)
     THEN <<>>
     ELSE [i \in 1..Len(found) |-> SearchRow(found[i])]

\* a call of search_books_in_catalog(search_term, search_type): it returns
\* the rows or is left by the exception
search_call(search_term, search_type) ==
  /\ UNCHANGED <<books, borrow_records, now, inflight>>
  /\ last' = IF SearchRaises(search_term, search_type)
             THEN [op |-> "search", search_term |-> search_term,
                   search_type |-> search_type, raised |-> "AttributeError"]
             ELSE [op |-> "search", search_term |-> search_term,
                   search_type |-> search_type,
                   rows |-> search_books_in_catalog(books, search_term, search_type)]

(***************************************************************************)
(* borrow_book_by_patron(patron_id, book_id).  insert_ok and avail_ok are  *)
(* the outcomes the storage reports for the two writes.                    *)
(***************************************************************************)
\* a patron_id that is a number other than 0: "not patron_id" is false and
\* patron_id.isdigit() raises AttributeError, a number has no such method
BorrowPatronRaises(patron_id) == patron_id.t \in {"int", "float"} /\ patron_id.v # 0

\* the call left by an exception instead of a return value
Raised(op, patron_id, book_id, exception) ==
  [op |-> op, patron_id |-> patron_id, book_id |-> book_id, raised |-> exception]

\* not patron_id or not patron_id.isdigit() or len(patron_id) != 6
BorrowPatronInvalid(patron_id) ==
  ~Truthy(patron_id) \/ ~isdigit(patron_id.v) \/ Len(patron_id.v) # PatronIdLen

\* mutant: the availability test lets a book with no copy left through
BookUnavailable_OffByOne(book) == book.available_copies < 0

\* book['available_copies'] <= 0
BookUnavailable(book) == book.available_copies <= 0

\* mutant: the limit test is strict
LimitReached_Strict(current_borrowed) == current_borrowed > BorrowLimit

\* current_borrowed >= 5
LimitReached(current_borrowed) == current_borrowed >= BorrowLimit

\* mutant: the loan period is a week
DueDate_OneWeek(borrow_date) == borrow_date + timedelta(7)

\* due_date = borrow_date + timedelta(days=14)
DueDate(borrow_date) == borrow_date + timedelta(LoanDays)

\* mutant: the result of a storage write is not looked at
WriteFailed_Ignored(success) == FALSE

\* if not borrow_success / if not availability_success
WriteFailed(success) == ~success

\* the table after a write: as written when the storage reports success, as
\* it was when it reports failure
Stored(success, written, table) == IF success THEN written ELSE table

\* mutant: the borrow leaves the counter as it is
BorrowChange_None == 1 - 1

\* the change borrow asks for: update_book_availability(book_id, -1)
BorrowChange == -1

borrow_book_by_patron(patron_id, book_id, insert_ok, avail_ok) ==
  LET book == get_book_by_id(books, book_id)
      current_borrowed == get_patron_borrow_count(borrow_records, patron_id.v)
      borrow_date == now
      due_date == DueDate(borrow_date)
      Fail(msg, calls) ==
        /\ UNCHANGED <<books, borrow_records, now, inflight>>
        /\ last' = LoanResult("borrow", patron_id, book_id, FALSE, msg, calls)
  IN
  IF BorrowPatronRaises(patron_id)
    THEN /\ UNCHANGED <<books, borrow_records, now, inflight>>
         /\ last' = Raised("borrow", patron_id, book_id, "AttributeError")
  ELSE IF BorrowPatronInvalid(patron_id)
    THEN Fail(MsgBorrowInvalidPatron, <<>>)
  ELSE IF book = <<>>
    THEN Fail(MsgBookNotFound, <<"get_book_by_id">>)
  ELSE IF BookUnavailable(book[1])
    THEN Fail(MsgNotAvailable, <<"get_book_by_id">>)
  ELSE IF LimitReached(current_borrowed)
    THEN Fail(MsgLimit, <<"get_book_by_id", "get_patron_borrow_count">>)
  ELSE IF WriteFailed(insert_ok)
    THEN Fail(MsgBorrowRecordDbError,
              <<"get_book_by_id", "get_patron_borrow_count", "insert_borrow_record">>)
  ELSE IF WriteFailed(avail_ok)
    THEN /\ borrow_records' =
              Stored(insert_ok,
                     insert_borrow_record(borrow_records, patron_id.v, book_id,
                                          borrow_date, due_date),
                     borrow_records)
         /\ UNCHANGED <<books, now, inflight>>
         /\ last' = LoanResult("borrow", patron_id, book_id, FALSE,
                               MsgBorrowAvailDbError,
                               <<"get_book_by_id", "get_patron_borrow_count",
                                 "insert_borrow_record", "update_book_availability">>)
  ELSE
    /\ borrow_records' =
         Stored(insert_ok,
                insert_borrow_record(borrow_records, patron_id.v, book_id,
                                     borrow_date, due_date),
                borrow_records)
    /\ books' = Stored(avail_ok,
                       update_book_availability(books, book_id, BorrowChange),
                       books)
    /\ UNCHANGED <<now, inflight>>
    /\ last' = LoanResult("borrow", patron_id, book_id, TRUE,
                          MsgBorrowed(book[1].title, due_date),
                          <<"get_book_by_id", "get_patron_borrow_count",
                            "insert_borrow_record", "update_book_availability">>)

(***************************************************************************)
(* calculate_late_fee_for_book(patron_id, book_id).  Amounts are in cents: *)
(* every amount the policy can produce is a multiple of 0.50, which the    *)
(* float arithmetic and round(fee, 2) of the code represent exactly.       *)
(***************************************************************************)
\* mutant: the two timestamps are subtracted before their time of day is
\* dropped, which counts elapsed 24-hour periods
DaysOverdue_Elapsed(stop, due) == Max(0, (stop - due) \div TicksPerDay)

\* days_overdue = max(0, (stop.date() - due.date()).days)
DaysOverdue(stop, due) == Max(0, date(stop) - date(due))

\* mutant: the second rate starts a day late
FeeAmount_LateTier(days_overdue) ==
  Min(FeeCap, FeeFirstRate * Min(days_overdue, FeeFirstDays + 1)
                + FeeLaterRate * Max(days_overdue - (FeeFirstDays + 1), 0))

\* mutant: the cap is missing
FeeAmount_NoCap(days_overdue) ==
  FeeFirstRate * Min(days_overdue, FeeFirstDays)
    + FeeLaterRate * Max(days_overdue - FeeFirstDays, 0)

\* fee = 0.50 * min(days_overdue, 7) + 1.00 * max(days_overdue - 7, 0)
\* fee = min(15.00, fee); round(fee, 2)
FeeAmount(days_overdue) ==
  Min(FeeCap, FeeFirstRate * Min(days_overdue, FeeFirstDays)
                + FeeLaterRate * Max(days_overdue - FeeFirstDays, 0))

\* mutant: the lookup forgets "patron_id=?"
LatestBorrowRows_AnyPatron(recs, pid, book_id) ==
  LET hit == {i \in 1..Len(recs) : recs[i].book_id = book_id}
  IN {i \in hit : \A j \in hit : recs[j].borrow_date <= recs[i].borrow_date}

\* mutant: the lookup orders by borrow_date ascending
LatestBorrowRows_Oldest(recs, pid, book_id) ==
  LET hit == {i \in 1..Len(recs) : recs[i].patron_id = pid /\ recs[i].book_id = book_id}
  IN {i \in hit : \A j \in hit : recs[j].borrow_date >= recs[i].borrow_date}

\* SELECT borrow_date, due_date, return_date FROM borrow_records
\*   WHERE patron_id=? AND book_id=? ORDER BY borrow_date DESC LIMIT 1
\* the rows the query can return: one of the latest borrowed rows of the pair
\* (which one of several rows with the same borrow_date is not determined)
LatestBorrowRows(recs, pid, book_id) ==
  LET hit == {i \in 1..Len(recs) : recs[i].patron_id = pid /\ recs[i].book_id = book_id}
  IN {i \in hit : \A j \in hit : recs[j].borrow_date <= recs[i].borrow_date}

\* mutant: the assessment of a returned book stops at the current time too
StopInstant_AlwaysNow(r, clock) == clock

\* stop = fromisoformat(r["return_date"]) if r["return_date"] else now()
StopInstant(r, clock) == IF r.return_date # <<>> THEN r.return_date[1] ELSE clock

\* the dictionary returned for the fetched row
Assessment(r, clock) ==
  LET days_overdue == DaysOverdue(StopInstant(r, clock), r.due_date)
  IN [fee_amount |-> FeeAmount(days_overdue), days_overdue |-> days_overdue]

\* the dictionary returned when the query finds no row
NoRecordAssessment == [fee_amount |-> 0, days_overdue |-> 0]

\* the results the lookup can return, each with the row it was computed from
calculate_late_fee_for_book(recs, clock, patron_id, book_id) ==
  LET rows == LatestBorrowRows(recs, patron_id, book_id)
  IN IF rows = {}
     THEN {[row |-> <<>>, info |-> NoRecordAssessment]}
     ELSE {[row |-> <<i>>, info |-> Assessment(recs[i], clock)] : i \in rows}

(***************************************************************************)
(* get_patron_status_report(patron_id).                                    *)
(***************************************************************************)
\* the elements of a set of row indexes as a sequence, in table order
InTableOrder(S) ==
  [k \in 1..Cardinality(S) |-> CHOOSE i \in S : Cardinality({j \in S : j < i}) = k - 1]

\* the open records of a patron, each with the title of its book
get_patron_borrowed_books(recs, bks, patron_id) ==
  LET open == InTableOrder({i \in OpenOfPatron(recs, patron_id) :
                              get_book_by_id(bks, recs[i].book_id) # <<>>})
  IN [k \in 1..Len(open) |->
        [book_id |-> recs[open[k]].book_id,
         title |-> get_book_by_id(bks, recs[open[k]].book_id)[1].title,
         borrow_date |-> recs[open[k]].borrow_date,
         due_date |-> recs[open[k]].due_date]]

\* mutant: the history query does not filter by patron
HistoryRows_AnyPatron(recs, bks, pid) ==
  LET hit == {i \in 1..Len(recs) : get_book_by_id(bks, recs[i].book_id) # <<>>}
  IN {f \in [1..Cardinality(hit) -> hit] :
        /\ \A a, b \in 1..Cardinality(hit) : a # b => f[a] # f[b]
        /\ \A a, b \in 1..Cardinality(hit) :
             a < b => recs[f[a]].borrow_date <= recs[f[b]].borrow_date}

\* SELECT br.book_id, b.title, br.borrow_date, br.return_date
\*   FROM borrow_records br JOIN books b ON b.id = br.book_id
\*   WHERE br.patron_id=? ORDER BY br.borrow_date
\* the orders the rows can come in, as sequences of row indexes (the order of
\* rows with the same borrow_date is not determined)
HistoryRows(recs, bks, pid) ==
  LET hit == {i \in 1..Len(recs) : /\ recs[i].patron_id = pid
                                   /\ get_book_by_id(bks, recs[i].book_id) # <<>>}
  IN {f \in [1..Cardinality(hit) -> hit] :
        /\ \A a, b \in 1..Cardinality(hit) : a # b => f[a] # f[b]
        /\ \A a, b \in 1..Cardinality(hit) :
             a < b => recs[f[a]].borrow_date <= recs[f[b]].borrow_date}

\* one entry of the history list
HistoryEntry(r, bks) ==
  [book_id |-> r.book_id,
   title |-> get_book_by_id(bks, r.book_id)[1].title,
   borrow_date |-> DateText(r.borrow_date),
   return_date |-> IF r.return_date # <<>> THEN <<DateText(r.return_date[1])>> ELSE <<>>]

\* total_fee += float(info["fee_amount"]) over the first n current loans
RECURSIVE TotalFee(_, _)
TotalFee(infos, n) ==
  IF n = 0 THEN 0 ELSE TotalFee(infos, n - 1) + infos[n].info.fee_amount

\* the reports the call can return
get_patron_status_report(recs, bks, clock, patron_id) ==
  LET pid == StrOf(patron_id)
      current == get_patron_borrowed_books(recs, bks, pid)
      current_rows == [k \in 1..Len(current) |->
                         [book_id |-> current[k].book_id,
                          title |-> current[k].title,
                          due_date |-> DateText(current[k].due_date)]]
      Lookup(k) == calculate_late_fee_for_book(recs, clock, pid, current[k].book_id)
      lookups == {f \in [1..Len(current) -> UNION {Lookup(k) : k \in 1..Len(current)}] :
                    \A k \in 1..Len(current) : f[k] \in Lookup(k)}
  IN {[current_loans |-> current_rows,
       total_late_fees |-> TotalFee(infos, Len(current)),
       borrowed_count |-> Len(current_rows),
       history |-> [k \in 1..Len(rows) |-> HistoryEntry(recs[rows[k]], bks)]] :
        infos \in lookups, rows \in HistoryRows(recs, bks, pid)}

(***************************************************************************)
(* return_book_by_patron(patron_id, book_id).  date_ok and avail_ok are    *)
(* the outcomes the storage reports for the two writes.                    *)
(***************************************************************************)
\* pid.isdigit() and len(pid) == 6
ReturnPatronValid(pid) == isdigit(pid) /\ Len(pid) = PatronIdLen

\* mutant: the lookup forgets "patron_id=?"
ActiveBorrowRows_AnyPatron(recs, pid, book_id) ==
  {i \in 1..Len(recs) : recs[i].book_id = book_id /\ recs[i].return_date = <<>>}

\* mutant: the lookup forgets "AND return_date IS NULL"
ActiveBorrowRows_AnyStatus(recs, pid, book_id) ==
  {i \in 1..Len(recs) : recs[i].patron_id = pid /\ recs[i].book_id = book_id}

\* SELECT id FROM borrow_records
\*   WHERE patron_id=? AND book_id=? AND return_date IS NULL
ActiveBorrowRows(recs, pid, book_id) ==
  {i \in 1..Len(recs) : /\ recs[i].patron_id = pid
                        /\ recs[i].book_id = book_id
                        /\ recs[i].return_date = <<>>}

\* mutant: the guard is strict
CopiesWouldExceed_Strict(book) == book.available_copies > book.total_copies

\* mutant: the guard already refuses the return of the last copy that is out
CopiesWouldExceed_OneEarly(book) == book.available_copies + 1 >= book.total_copies

\* book["available_copies"] >= book["total_copies"]
CopiesWouldExceed(book) == book.available_copies >= book.total_copies

\* mutant: the return gives back two copies
ReturnChange_Two == 1 + 1

\* the change return_book asks for: update_book_availability(int(book_id), +1)
ReturnChange == 1

return_book_by_patron(patron_id, book_id, date_ok, avail_ok) ==
  LET pid == StrOrEmpty(patron_id)
      book == get_book_by_id(books, book_id)
      rec == ActiveBorrowRows(borrow_records, pid, book_id)
      Fail(msg, calls) ==
        /\ UNCHANGED <<books, borrow_records, now, inflight>>
        /\ last' = LoanResult("return", patron_id, book_id, FALSE, msg, calls)
  IN
  IF ~ReturnPatronValid(pid)
    THEN Fail(MsgReturnInvalidPatron, <<>>)
  ELSE IF book = <<>>
    THEN Fail(MsgBookNotFound, <<"get_book_by_id">>)
  ELSE IF rec = {}
    THEN Fail(MsgNoActiveBorrow, <<"get_book_by_id", "get_db_connection">>)
  ELSE IF CopiesWouldExceed(book[1])
    THEN Fail(MsgCopiesExceed, <<"get_book_by_id", "get_db_connection">>)
  ELSE IF ~date_ok
    THEN Fail(MsgReturnDateDbError,
              <<"get_book_by_id", "get_db_connection",
                "update_borrow_record_return_date">>)
  ELSE IF ~avail_ok
    THEN /\ borrow_records' \in
              update_borrow_record_return_date(borrow_records, pid, book_id, now)
         /\ UNCHANGED <<books, now, inflight>>
         /\ last' = LoanResult("return", patron_id, book_id, FALSE,
                               MsgReturnAvailDbError,
                               <<"get_book_by_id", "get_db_connection",
                                 "update_borrow_record_return_date",
                                 "update_book_availability">>)
  ELSE
    /\ borrow_records' \in
         update_borrow_record_return_date(borrow_records, pid, book_id, now)
    /\ books' = update_book_availability(books, book_id, ReturnChange)
    /\ UNCHANGED <<now, inflight>>
    /\ \E fee_info \in calculate_late_fee_for_book(borrow_records', now, pid, book_id) :
         last' = ReturnedResult(patron_id, book_id, fee_info.info.fee_amount,
                                <<"get_book_by_id", "get_db_connection",
                                  "update_borrow_record_return_date",
                                  "update_book_availability", "get_db_connection">>)

(***************************************************************************)
(* Payment settlement: pay_late_fees(patron_id, book_id, gateway) and      *)
(* refund_late_fee_payment(transaction_id, amount, gateway).  The gateway  *)
(* is a collaborator: outcome is what its one operation does when called,  *)
(* it returns a tuple or it raises.  fee_info is the dictionary the fee    *)
(* lookup hands back.  Amounts are in cents.                               *)
(***************************************************************************)
\* the largest amount one refund may have: the fee cap
RefundLimit == 1500

MsgPayInvalidPatron == "Invalid patron ID"
MsgPayBookNotFound == "Book not found"
MsgPayNoCalculation == "Unable to calculate late fees"
MsgPayNoFees == "No late fees"
MsgRefundExceeds == "Refund amount exceeds the maximum late fee"

\* what the gateway's operation did: returned (success, transaction_id,
\* message), returned (success, message), or raised an exception with a text
ChargeReturned(success, transaction_id, message) ==
  [kind |-> "returned", success |-> success, transaction_id |-> transaction_id,
   message |-> message]
RefundReturned(success, message) ==
  [kind |-> "returned", success |-> success, message |-> message]
GatewayRaised(message) == [kind |-> "raised", message |-> message]

\* the patron_id is not a string of 6 digits
PayPatronInvalid(patron_id) ==
  ~Truthy(patron_id) \/ ~isdigit(patron_id.v) \/ Len(patron_id.v) # PatronIdLen

\* the fee assessment lacks the fee field
FeeMissing(fee_info) == "fee_amount" \notin DOMAIN fee_info

\* mutant: only a negative fee counts as nothing owed
NoFeesOwed_NegativeOnly(fee_amount) == fee_amount < 0

\* nothing is owed: the fee is zero or negative
NoFeesOwed(fee_amount) == fee_amount <= 0

\* mutant: a failure of the gateway is reported with a text of the service
GatewayMessage_OwnText(outcome) == "Payment failed"

\* the message of the gateway: the one it returned or the text of its fault
GatewayMessage(outcome) == outcome.message

\* the gateway did not do what it was asked to: it raised or reported failure
GatewayFailed(outcome) == outcome.kind = "raised" \/ ~outcome.success

PayResult(patron_id, book_id, fee_info, outcome, ok, error, msg, txn, gateway_calls) ==
  [op |-> "pay", patron_id |-> patron_id, book_id |-> book_id,
   fee_info |-> fee_info, outcome |-> outcome, ok |-> ok, error |-> error,
   msg |-> msg, transaction_id |-> txn, gateway_calls |-> gateway_calls]

pay_late_fees(patron_id, book_id, fee_info, outcome) ==
  LET book == get_book_by_id(books, book_id)
      Fail(error, msg, gateway_calls) ==
        last' = PayResult(patron_id, book_id, fee_info, outcome, FALSE, error, msg,
                          <<>>, gateway_calls)
      charge == [name |-> "process_payment", patron_id |-> patron_id.v,
                 amount |-> fee_info.fee_amount, description |-> book[1].title]
  IN
  /\ UNCHANGED <<books, borrow_records, now, inflight>>
  /\ IF PayPatronInvalid(patron_id)
       THEN Fail("InvalidPatronId", MsgPayInvalidPatron, <<>>)
     ELSE IF book = <<>>
       THEN Fail("NotFound", MsgPayBookNotFound, <<>>)
     ELSE IF FeeMissing(fee_info)
       THEN Fail("CalculationError", MsgPayNoCalculation, <<>>)
     ELSE IF NoFeesOwed(fee_info.fee_amount)
       THEN Fail("NoFeesOwed", MsgPayNoFees, <<>>)
     ELSE IF GatewayFailed(outcome)
       THEN Fail("GatewayError", GatewayMessage(outcome), <<charge>>)
     ELSE last' = PayResult(patron_id, book_id, fee_info, outcome, TRUE, "",
                            GatewayMessage(outcome), outcome.transaction_id,
                            <<charge>>)

\* mutant: an amount equal to the limit is refused too
RefundOverLimit_Inclusive(amount) == amount >= RefundLimit

\* the amount is more than one refund may have
RefundOverLimit(amount) == amount > RefundLimit

RefundResult(transaction_id, amount, outcome, ok, error, msg, gateway_calls) ==
  [op |-> "refund", transaction_id |-> transaction_id, amount |-> amount,
   outcome |-> outcome, ok |-> ok, error |-> error, msg |-> msg,
   gateway_calls |-> gateway_calls]

refund_late_fee_payment(transaction_id, amount, outcome) ==
  LET refund == [name |-> "refund_payment", transaction_id |-> transaction_id,
                 amount |-> amount]
  IN
  /\ UNCHANGED <<books, borrow_records, now, inflight>>
  /\ IF RefundOverLimit(amount)
       THEN last' = RefundResult(transaction_id, amount, outcome, FALSE,
                                 "LimitExceeded", MsgRefundExceeds, <<>>)
     ELSE IF GatewayFailed(outcome)
       THEN last' = RefundResult(transaction_id, amount, outcome, FALSE,
                                 "GatewayError", GatewayMessage(outcome), <<refund>>)
     ELSE last' = RefundResult(transaction_id, amount, outcome, TRUE, "",
                               GatewayMessage(outcome), <<refund>>)

(***************************************************************************)
(* The clock: datetime.now() never goes back.                              *)
(***************************************************************************)
Tick ==
  /\ now < MaxNow
  /\ now' = now + 1
  /\ UNCHANGED <<books, borrow_records, inflight>>
  /\ last' = [op |-> "tick"]

(***************************************************************************)
(* Arguments the operations are called with.                               *)
(***************************************************************************)
PatronA == <<"1", "2", "3", "4", "5", "6">>
PatronB == <<"0", "0", "0", "1", "1", "1">>

PatronIdArgs ==
  {PyStr(PatronA), PyStr(PatronB),
   PyStr(<<"1", "2", "3", "4">>), PyStr(<<"1", "2", "a", "b", "5", "6">>)}

BookIdArgs == {1, 2}

TitleArgs == {<<" ", "T">>}
AuthorArgs == {<<"A">>}
\* one ISBN of the required length and one that is too short: the duplicate
\* check keeps the catalog at one book
IsbnArgs == {Rep("1", IsbnLen), Rep("2", IsbnLen - 1)}
CopiesArgs == {PyInt(0), PyInt(1), PyInt(2)}

\* what the storage can report for the two writes of a borrow or a return:
\* both succeed, the second fails, or the first fails (the second is not made)
WriteOutcomes == {<<TRUE, TRUE>>, <<TRUE, FALSE>>, <<FALSE, TRUE>>}

\* no call has started
NoCalls == [calls |-> <<>>, overlapped |-> FALSE]

Init ==
  /\ books = <<>>
  /\ borrow_records = <<>>
  /\ now = 0
  /\ last = [op |-> "init"]
  /\ inflight = NoCalls

AddBook ==
  \E title \in TitleArgs, author \in AuthorArgs, isbn \in IsbnArgs,
     total_copies \in CopiesArgs, insert_ok \in BOOLEAN :
    add_book_to_catalog(title, author, isbn, total_copies, insert_ok)

Borrow ==
  \E patron_id \in PatronIdArgs, book_id \in BookIdArgs, w \in WriteOutcomes :
    /\ borrow_book_by_patron(patron_id, book_id, w[1], w[2])
    /\ Len(borrow_records') <= MaxRecords

Return ==
  \E patron_id \in PatronIdArgs, book_id \in BookIdArgs, w \in WriteOutcomes :
    return_book_by_patron(patron_id, book_id, w[1], w[2])

Next == AddBook \/ Borrow \/ Return \/ Tick

Spec == Init /\ [][Next]_vars

(***************************************************************************)
(* The same operations on a storage whose writes all succeed.              *)
(***************************************************************************)
AddBookReliable ==
  \E title \in TitleArgs, author \in AuthorArgs, isbn \in IsbnArgs,
     total_copies \in CopiesArgs :
    add_book_to_catalog(title, author, isbn, total_copies, TRUE)

BorrowReliable ==
  \E patron_id \in PatronIdArgs, book_id \in BookIdArgs :
    /\ borrow_book_by_patron(patron_id, book_id, TRUE, TRUE)
    /\ Len(borrow_records') <= MaxRecords

ReturnReliable ==
  \E patron_id \in PatronIdArgs, book_id \in BookIdArgs :
    return_book_by_patron(patron_id, book_id, TRUE, TRUE)

NextReliable == AddBookReliable \/ BorrowReliable \/ ReturnReliable \/ Tick

SpecReliable == Init /\ [][NextReliable]_vars

(***************************************************************************)
(* The borrowing limit: one book with more copies than the limit, so that  *)
(* a patron can reach the limit and ask for one more.  The clock stands    *)
(* still, the limit does not read it; the writes of a borrow can fail, the *)
(* writes of a return succeed.                                             *)
(***************************************************************************)
LimitCopiesArgs == {PyInt(BorrowLimit + 1)}
LimitBookIdArgs == {1}
LimitPatronIdArgs == {PyStr(PatronA), PyStr(PatronB)}

AddBookLimit ==
  \E total_copies \in LimitCopiesArgs, insert_ok \in BOOLEAN :
    add_book_to_catalog(<<"T">>, <<"A">>, Rep("1", IsbnLen), total_copies, insert_ok)

BorrowLimitStep ==
  \E patron_id \in LimitPatronIdArgs, book_id \in LimitBookIdArgs, w \in WriteOutcomes :
    /\ borrow_book_by_patron(patron_id, book_id, w[1], w[2])
    /\ Len(borrow_records') <= MaxLimitRecords

ReturnLimit ==
  \E patron_id \in LimitPatronIdArgs, book_id \in LimitBookIdArgs :
    return_book_by_patron(patron_id, book_id, TRUE, TRUE)

NextLimit == AddBookLimit \/ BorrowLimitStep \/ ReturnLimit

SpecLimit == Init /\ [][NextLimit]_vars

(***************************************************************************)
(* The fee policy over a long time: one patron borrows and returns one     *)
(* book while the clock moves through the instants of FeeClock, and the    *)
(* fee of any pair is looked up at any time.  Every write succeeds.        *)
(***************************************************************************)
\* instants, in days after the first borrow and with a time of day: the day
\* of the first borrow early and late, its due day early and late, and the
\* first hour of the days that are 1, 5, 10, 19, 30 and 45 days after it
FeeClock ==
  {0, TicksPerDay - 1,
   timedelta(LoanDays), timedelta(LoanDays) + TicksPerDay - 1,
   timedelta(LoanDays + 1), timedelta(LoanDays + 5), timedelta(LoanDays + 10),
   timedelta(LoanDays + 19), timedelta(LoanDays + 30), timedelta(LoanDays + 45)}

FeeLookupPatronArgs == {PyStr(PatronA), PyStr(PatronB), PyNone}

AddBookFee ==
  add_book_to_catalog(<<"T">>, <<"A">>, Rep("1", IsbnLen), PyInt(2), TRUE)

BorrowFee ==
  /\ borrow_book_by_patron(PyStr(PatronA), 1, TRUE, TRUE)
  /\ Len(borrow_records') <= MaxFeeRecords

ReturnFee == return_book_by_patron(PyStr(PatronA), 1, TRUE, TRUE)

TickFee ==
  \E t \in FeeClock :
    /\ t > now
    /\ now' = t
    /\ UNCHANGED <<books, borrow_records, inflight>>
    /\ last' = [op |-> "tick"]

\* a call of calculate_late_fee_for_book(patron_id, book_id)
LateFeeLookup ==
  \E patron_id \in FeeLookupPatronArgs, book_id \in BookIdArgs :
    \E r \in calculate_late_fee_for_book(borrow_records, now, StrOf(patron_id), book_id) :
      /\ UNCHANGED <<books, borrow_records, now, inflight>>
      /\ last' = FeeResult(patron_id, book_id, r.row, r.info)

NextFee == AddBookFee \/ BorrowFee \/ ReturnFee \/ TickFee \/ LateFeeLookup

SpecFee == Init /\ [][NextFee]_vars

(***************************************************************************)
(* The fee lookup with several records of one pair: the same operations,   *)
(* more records, fewer instants.                                           *)
(***************************************************************************)
\* the first borrow, 10 days later, 20 days later at a late hour, 40 days later
PairClock == {0, timedelta(10), timedelta(20) + TicksPerDay - 1, timedelta(40)}

BorrowPair ==
  /\ borrow_book_by_patron(PyStr(PatronA), 1, TRUE, TRUE)
  /\ Len(borrow_records') <= MaxPairRecords

TickPair ==
  \E t \in PairClock :
    /\ t > now
    /\ now' = t
    /\ UNCHANGED <<books, borrow_records, inflight>>
    /\ last' = [op |-> "tick"]

NextPair == AddBookFee \/ BorrowPair \/ ReturnFee \/ TickPair \/ LateFeeLookup

SpecPair == Init /\ [][NextPair]_vars

(***************************************************************************)
(* The catalog: books are added with arguments at and beyond every limit   *)
(* of the validation, one patron borrows and returns them, and the catalog *)
(* is listed at any time.  The insert of a book can fail, the writes of    *)
(* borrow and return succeed.  The clock stands still.                     *)
(***************************************************************************)
\* titles and authors of one character and of the longest length allowed,
\* with blanks, a tab or a newline around them
TitleShort == <<"\t", "T", " ">>
TitleLongest == <<" ">> \o Rep("t", MaxTitleLen) \o <<" ">>
AuthorShort == <<"A">>
AuthorLongest == <<"\n">> \o Rep("a", MaxAuthorLen)

CatalogIsbnA == Rep("1", IsbnLen)
\* thirteen characters that are not all digits
CatalogIsbnB == Rep("2", IsbnLen - 1) \o <<"X">>

\* arguments add_book_to_catalog accepts
CatalogValidArgs ==
  {<<TitleShort, AuthorShort, isbn, PyInt(n)>> :
     isbn \in {CatalogIsbnA, CatalogIsbnB}, n \in {1, 2}}
  \cup {<<TitleLongest, AuthorLongest, CatalogIsbnB, PyInt(1)>>}

\* arguments with one field that the validation refuses, and one with all four
CatalogInvalidArgs ==
  {<<title, AuthorShort, CatalogIsbnA, PyInt(1)>> :
     title \in {<<>>, <<" ", "\t">>, Rep("t", MaxTitleLen + 1)}}
  \cup {<<TitleShort, author, CatalogIsbnA, PyInt(1)>> :
           author \in {<<>>, <<"\n">>, Rep("a", MaxAuthorLen + 1)}}
  \cup {<<TitleShort, AuthorShort, isbn, PyInt(1)>> :
           isbn \in {Rep("1", IsbnLen - 1), Rep("1", IsbnLen + 1)}}
  \cup {<<TitleShort, AuthorShort, CatalogIsbnA, total_copies>> :
           total_copies \in {PyInt(0), PyInt(-1), PyFloat(2)}}
  \cup {<<<<>>, <<>>, Rep("1", IsbnLen - 1), PyInt(0)>>}

CatalogAddArgs == CatalogValidArgs \cup CatalogInvalidArgs

AddBookCatalog ==
  \E a \in CatalogAddArgs, insert_ok \in BOOLEAN :
    add_book_to_catalog(a[1], a[2], a[3], a[4], insert_ok)

BorrowCatalog ==
  \E book_id \in BookIdArgs :
    /\ borrow_book_by_patron(PyStr(PatronA), book_id, TRUE, TRUE)
    /\ Len(borrow_records') <= MaxCatalogRecords

ReturnCatalog ==
  \E book_id \in BookIdArgs :
    return_book_by_patron(PyStr(PatronA), book_id, TRUE, TRUE)

\* a call of get_catalog_view()
ListCatalog ==
  /\ UNCHANGED <<books, borrow_records, now, inflight>>
  /\ last' = [op |-> "catalog", rows |-> get_catalog_view(books)]

NextCatalog == AddBookCatalog \/ BorrowCatalog \/ ReturnCatalog \/ ListCatalog

SpecCatalog == Init /\ [][NextCatalog]_vars

(***************************************************************************)
(* The status report: one patron borrows and returns two books of two      *)
(* copies each, a second patron holds one of them, the clock moves past    *)
(* the due dates, and the report of either patron is asked for at any      *)
(* time.  Every write succeeds.                                            *)
(***************************************************************************)
ReportAddArgs ==
  {<<<<"T">>, <<"A">>, CatalogIsbnA, PyInt(2)>>,
   <<<<"U">>, <<"B">>, CatalogIsbnB, PyInt(2)>>}

ReportPatronArgs == {PyStr(PatronA), PyStr(PatronB)}

AddBookReport ==
  \E a \in ReportAddArgs :
    add_book_to_catalog(a[1], a[2], a[3], a[4], TRUE)

\* the number of records, open and closed, of a patron
RecordCount(recs, patron_id) ==
  Cardinality({i \in 1..Len(recs) : recs[i].patron_id = patron_id})

\* the first patron borrows again and again
BorrowReport ==
  \E book_id \in BookIdArgs :
    /\ borrow_book_by_patron(PyStr(PatronA), book_id, TRUE, TRUE)
    /\ RecordCount(borrow_records', PatronA) <= MaxReportRecords

\* the second patron borrows the first book once and keeps it
BorrowReportOnce ==
  /\ RecordCount(borrow_records, PatronB) = 0
  /\ borrow_book_by_patron(PyStr(PatronB), 1, TRUE, TRUE)

ReturnReport ==
  \E book_id \in BookIdArgs :
    return_book_by_patron(PyStr(PatronA), book_id, TRUE, TRUE)

\* a call of get_patron_status_report(patron_id)
StatusReport ==
  \E patron_id \in ReportPatronArgs :
    \E report \in get_patron_status_report(borrow_records, books, now, patron_id) :
      /\ UNCHANGED <<books, borrow_records, now, inflight>>
      /\ last' = [op |-> "status", patron_id |-> patron_id,
                  current_loans |-> report.current_loans,
                  total_late_fees |-> report.total_late_fees,
                  borrowed_count |-> report.borrowed_count,
                  history |-> report.history]

\* the instants the clock of the report takes: the start, a day on which a
\* loan of the start is overdue, and a day on which every loan is at the cap
ReportClock == {0, timedelta(20) + TicksPerDay - 1, timedelta(40)}

TickReport ==
  \E t \in ReportClock :
    /\ t > now
    /\ now' = t
    /\ UNCHANGED <<books, borrow_records, inflight>>
    /\ last' = [op |-> "tick"]

NextReport ==
  AddBookReport \/ BorrowReport \/ BorrowReportOnce \/ ReturnReport \/ TickReport
    \/ StatusReport

SpecReport == Init /\ [][NextReport]_vars

(***************************************************************************)
(* Searching: up to three books whose titles, authors and ISBNs differ in  *)
(* case and in blanks are added, one patron borrows and returns them, and  *)
(* the catalog is searched with any term and type.  Every write succeeds.  *)
(***************************************************************************)
SearchIsbnPlain == Rep("1", IsbnLen)
\* thirteen characters, the first a blank
SearchIsbnBlank == <<" ">> \o Rep("1", IsbnLen - 1)
\* thirteen characters, the last an upper-case letter
SearchIsbnLetter == Rep("2", IsbnLen - 1) \o <<"X">>

SearchAddArgs ==
  {<<<<" ", "T", "a", "l", "e">>, <<"A", "b", "e">>, SearchIsbnPlain, PyInt(1)>>,
   <<<<"N", "e", "s", "t">>, <<"E", "l", "i">>, SearchIsbnBlank, PyInt(1)>>,
   <<<<"b", "a", "t">>, <<"a", "b", "e", "l">>, SearchIsbnLetter, PyInt(2)>>}

SearchTermArgs ==
  {PyNone, PyStr(<<>>), PyStr(<<" ">>), PyStr(<<"a">>), PyStr(<<"T", "A">>),
   PyStr(<<"\t", "a", "l", "E", " ">>), PyStr(<<"n", "e", "s", "t">>),
   PyStr(<<"A", "B", "E">>), PyStr(<<"z">>),
   PyStr(SearchIsbnPlain), PyStr(<<" ">> \o SearchIsbnPlain \o <<" ">>),
   PyStr(SearchIsbnBlank), PyStr(SearchIsbnLetter),
   PyStr(Rep("2", IsbnLen - 1) \o <<"x">>)}

SearchTypeArgs ==
  {PyNone, PyStr(<<>>), PyStr(<<"t", "i", "t", "l", "e">>),
   PyStr(<<"a", "u", "t", "h", "o", "r">>), PyStr(<<"i", "s", "b", "n">>),
   PyStr(<<" ", "T", "i", "t", "l", "e", " ">>), PyStr(<<"I", "S", "B", "N">>),
   PyStr(<<"A", "U", "T", "H", "O", "R", "\n">>),
   PyStr(<<"g", "e", "n", "r", "e">>), PyStr(<<"t", "i", "t", "l", "e", "s">>)}

AddBookSearch ==
  \E a \in SearchAddArgs :
    add_book_to_catalog(a[1], a[2], a[3], a[4], TRUE)

BorrowSearch ==
  \E book_id \in BookIdArgs :
    /\ borrow_book_by_patron(PyStr(PatronA), book_id, TRUE, TRUE)
    /\ Len(borrow_records') <= MaxSearchRecords

ReturnSearch ==
  \E book_id \in BookIdArgs :
    return_book_by_patron(PyStr(PatronA), book_id, TRUE, TRUE)

\* a call of search_books_in_catalog(search_term, search_type)
Search ==
  \E search_term \in SearchTermArgs, search_type \in SearchTypeArgs :
    search_call(search_term, search_type)

NextSearch == AddBookSearch \/ BorrowSearch \/ ReturnSearch \/ Search

SpecSearch == Init /\ [][NextSearch]_vars

(***************************************************************************)
(* Payment settlement: one patron borrows and returns one book while the   *)
(* clock moves past the due date, and fees are paid and refunded at any    *)
(* time through a gateway that succeeds, declines or raises.  The fee      *)
(* lookup of a payment gives the assessment of the pair or, as a faulty    *)
(* collaborator, a dictionary without the fee or a negative fee.  Every    *)
(* storage write succeeds.                                                 *)
(***************************************************************************)
ChargeOutcomes ==
  {ChargeReturned(TRUE, <<"txn_123">>, "Success"),
   ChargeReturned(FALSE, <<>>, "Declined"),
   GatewayRaised("Network timeout")}

RefundOutcomes ==
  {RefundReturned(TRUE, "Refund processed"),
   RefundReturned(FALSE, "Refund failed"),
   GatewayRaised("Gateway unavailable")}

\* dictionaries a faulty fee lookup hands back
FaultyFeeInfos == {[wrong_key |-> 500], [fee_amount |-> -200, days_overdue |-> 0]}

\* refund amounts: 5.00, the limit, one cent more, and 20.00
RefundAmountArgs == {500, RefundLimit, RefundLimit + 1, 2000}

TransactionIdArgs == {"txn_111"}

\* a call of pay_late_fees(patron_id, book_id, gateway)
PayLateFees ==
  \E patron_id \in PatronIdArgs, book_id \in BookIdArgs, outcome \in ChargeOutcomes :
    \E fee_info \in
         {r.info : r \in calculate_late_fee_for_book(borrow_records, now,
                                                     StrOf(patron_id), book_id)}
           \cup FaultyFeeInfos :
      pay_late_fees(patron_id, book_id, fee_info, outcome)

\* a call of refund_late_fee_payment(transaction_id, amount, gateway)
RefundLateFee ==
  \E transaction_id \in TransactionIdArgs, amount \in RefundAmountArgs,
     outcome \in RefundOutcomes :
    refund_late_fee_payment(transaction_id, amount, outcome)

NextPay ==
  AddBookFee \/ BorrowFee \/ ReturnFee \/ TickReport \/ PayLateFees \/ RefundLateFee

SpecPay == Init /\ [][NextPay]_vars

(***************************************************************************)
(* Arguments of other types and characters: borrow, return and the fee     *)
(* lookup are called with a patron_id that is a string of decimal digits   *)
(* or of superscript digits, None or a number, and the search with a term  *)
(* or a type that is a number.  Every storage write succeeds.              *)
(***************************************************************************)
\* six characters that are digits for str.isdigit() and no decimal digits
PatronSuperscript == Rep("²", PatronIdLen)

TypedPatronIdArgs ==
  {PyStr(PatronA), PyStr(PatronSuperscript), PyNone, PyInt(0), PyInt(123456),
   PyFloat(1)}

BorrowTyped ==
  \E patron_id \in TypedPatronIdArgs, book_id \in BookIdArgs :
    /\ borrow_book_by_patron(patron_id, book_id, TRUE, TRUE)
    /\ Len(borrow_records') <= MaxTypedRecords

ReturnTyped ==
  \E patron_id \in TypedPatronIdArgs :
    return_book_by_patron(patron_id, 1, TRUE, TRUE)

LateFeeTyped ==
  \E patron_id \in TypedPatronIdArgs :
    \E r \in calculate_late_fee_for_book(borrow_records, now, StrOf(patron_id), 1) :
      /\ UNCHANGED <<books, borrow_records, now, inflight>>
      /\ last' = FeeResult(patron_id, 1, r.row, r.info)

SearchTyped ==
  \E search_term \in {PyStr(<<"T">>), PyInt(0), PyInt(5)},
     search_type \in {PyStr(<<"t", "i", "t", "l", "e">>), PyInt(5)} :
    search_call(search_term, search_type)

NextTyped ==
  AddBookFee \/ BorrowTyped \/ ReturnTyped \/ LateFeeTyped \/ SearchTyped \/ TickReport

SpecTyped == Init /\ [][NextTyped]_vars

(***************************************************************************)
(* borrow_book_by_patron one storage call at a time.  The core takes no    *)
(* lock: a borrow call is a sequence of storage calls (get_book_by_id,     *)
(* get_patron_borrow_count, insert_borrow_record,                          *)
(* update_book_availability), and a caller that does not scope a lock or a *)
(* transaction around each call lets the storage calls of several borrow   *)
(* calls interleave.  A call in flight keeps its arguments, the storage    *)
(* call it makes next (pc) and its local variables; inflight.overlapped    *)
(* records that some call started while another was in flight.  Each of    *)
(* the two storage writes succeeds or reports failure.                     *)
(***************************************************************************)
MaxCalls == 2
MaxRaceRecords == 6

\* a sequence without its i-th element
Without(s, i) == [j \in 1..(Len(s) - 1) |-> IF j < i THEN s[j] ELSE s[j + 1]]

\* a call starts: it overlaps the calls that are in flight
Started == [inflight EXCEPT !.overlapped = @ \/ inflight.calls # <<>>]

\* lines 90-98: the patron_id test, get_book_by_id and the two tests of the
\* book; a call that passes goes on to get_patron_borrow_count
borrow_get_book(patron_id, book_id) ==
  LET book == get_book_by_id(books, book_id)
      Fail(msg, calls) ==
        /\ UNCHANGED <<books, borrow_records, now>>
        /\ inflight' = Started
        /\ last' = LoanResult("borrow", patron_id, book_id, FALSE, msg, calls)
  IN
  IF BorrowPatronRaises(patron_id)
    THEN /\ UNCHANGED <<books, borrow_records, now>>
         /\ inflight' = Started
         /\ last' = Raised("borrow", patron_id, book_id, "AttributeError")
  ELSE IF BorrowPatronInvalid(patron_id)
    THEN Fail(MsgBorrowInvalidPatron, <<>>)
  ELSE IF book = <<>>
    THEN Fail(MsgBookNotFound, <<"get_book_by_id">>)
  ELSE IF BookUnavailable(book[1])
    THEN Fail(MsgNotAvailable, <<"get_book_by_id">>)
  ELSE
    /\ inflight' =
         [Started EXCEPT !.calls =
            Append(@, [pc |-> "get_patron_borrow_count",
                       patron_id |-> patron_id, book_id |-> book_id,
                       book |-> book[1]])]
    /\ UNCHANGED <<books, borrow_records, now, last>>

\* lines 101-108: get_patron_borrow_count, the limit test, and the dates of
\* the loan; a call that passes goes on to insert_borrow_record
borrow_get_count(i) ==
  LET call == inflight.calls[i]
      current_borrowed == get_patron_borrow_count(borrow_records, call.patron_id.v)
      borrow_date == now
      due_date == DueDate(borrow_date)
  IN
  /\ call.pc = "get_patron_borrow_count"
  /\ UNCHANGED <<books, borrow_records, now>>
  /\ IF LimitReached(current_borrowed)
       THEN /\ inflight' = [inflight EXCEPT !.calls = Without(@, i)]
            /\ last' = LoanResult("borrow", call.patron_id, call.book_id, FALSE,
                                  MsgLimit,
                                  <<"get_book_by_id", "get_patron_borrow_count">>)
       ELSE /\ inflight' =
                 [inflight EXCEPT !.calls[i] =
                    [pc |-> "insert_borrow_record",
                     patron_id |-> call.patron_id, book_id |-> call.book_id,
                     book |-> call.book,
                     borrow_date |-> borrow_date, due_date |-> due_date]]
            /\ UNCHANGED last

\* lines 111-114: insert_borrow_record; when the storage reports failure the
\* call returns the error, otherwise it goes on to update_book_availability
borrow_insert_record(i, insert_ok) ==
  LET call == inflight.calls[i]
  IN
  /\ call.pc = "insert_borrow_record"
  /\ UNCHANGED <<books, now>>
  /\ IF WriteFailed(insert_ok)
       THEN /\ UNCHANGED borrow_records
            /\ inflight' = [inflight EXCEPT !.calls = Without(@, i)]
            /\ last' = LoanResult("borrow", call.patron_id, call.book_id, FALSE,
                                  MsgBorrowRecordDbError,
                                  <<"get_book_by_id", "get_patron_borrow_count",
                                    "insert_borrow_record">>)
       ELSE /\ borrow_records' =
                 Stored(insert_ok,
                        insert_borrow_record(borrow_records, call.patron_id.v,
                                             call.book_id, call.borrow_date,
                                             call.due_date),
                        borrow_records)
            /\ inflight' = [inflight EXCEPT !.calls[i].pc = "update_book_availability"]
            /\ UNCHANGED last

\* lines 116-120: update_book_availability(book_id, -1) and the return, the
\* error when the storage reports failure
borrow_update_availability(i, avail_ok) ==
  LET call == inflight.calls[i]
      calls == <<"get_book_by_id", "get_patron_borrow_count",
                 "insert_borrow_record", "update_book_availability">>
  IN
  /\ call.pc = "update_book_availability"
  /\ inflight' = [inflight EXCEPT !.calls = Without(@, i)]
  /\ UNCHANGED <<borrow_records, now>>
  /\ IF WriteFailed(avail_ok)
       THEN /\ UNCHANGED books
            /\ last' = LoanResult("borrow", call.patron_id, call.book_id, FALSE,
                                  MsgBorrowAvailDbError, calls)
       ELSE /\ books' = Stored(avail_ok,
                               update_book_availability(books, call.book_id,
                                                        BorrowChange),
                               books)
            /\ last' = LoanResult("borrow", call.patron_id, call.book_id, TRUE,
                                  MsgBorrowed(call.book.title, call.due_date),
                                  calls)

\* a book with as many copies as a patron may hold, or with one fewer
RaceCopiesArgs == {PyInt(BorrowLimit - 1), PyInt(BorrowLimit)}

\* the calls that overlap are calls of one patron
RacePatronIdArgs == {PyStr(PatronA)}

AddBookRace ==
  \E total_copies \in RaceCopiesArgs :
    add_book_to_catalog(<<"T">>, <<"A">>, Rep("1", IsbnLen), total_copies, TRUE)

BorrowGetBook ==
  \E patron_id \in RacePatronIdArgs, book_id \in BookIdArgs :
    /\ Len(inflight.calls) < MaxCalls
    /\ Len(borrow_records) + Len(inflight.calls) < MaxRaceRecords
    /\ borrow_get_book(patron_id, book_id)

BorrowGetCount == \E i \in 1..Len(inflight.calls) : borrow_get_count(i)

BorrowInsertRecord ==
  \E i \in 1..Len(inflight.calls), insert_ok \in BOOLEAN :
    borrow_insert_record(i, insert_ok)

BorrowUpdateAvailability ==
  \E i \in 1..Len(inflight.calls), avail_ok \in BOOLEAN :
    borrow_update_availability(i, avail_ok)

NextRace ==
  AddBookRace \/ BorrowGetBook \/ BorrowGetCount \/ BorrowInsertRecord \/ BorrowUpdateAvailability

SpecRace == Init /\ [][NextRace]_vars

(***************************************************************************)
(* Properties of the loan lifecycle.                                       *)
(***************************************************************************)
\* the available_copies of the book with this id
Available(bks, book_id) == get_book_by_id(bks, book_id)[1].available_copies

\* the indexes of the rows that differ between two tables of equal length
ChangedRows(old, new) == {i \in 1..Len(old) : old[i] # new[i]}

\* an argument that is a string of exactly six characters, all of them digits
SixDigitString(x) ==
  /\ x.t = "str"
  /\ Len(x.v) = 6
  /\ \A i \in 1..Len(x.v) : x.v[i] \in Digits

\* C1: in every reachable state every book has
\* 0 <= available_copies <= total_copies.
C1_AvailableWithinBounds ==
  \A i \in 1..Len(books) :
    /\ 0 <= books[i].available_copies
    /\ books[i].available_copies <= books[i].total_copies

\* a successful borrow has just taken the last copy of a book
C1_Witness ==
  /\ last.op = "borrow" /\ last.ok
  /\ Available(books, last.book_id) = 0

\* C2: a successful borrow(patron, book) appends exactly one record, open, for
\* (patron, book), borrowed now and due 14 days after its borrow_date, leaves
\* the older records as they were and lowers the book's available_copies by 1.
C2_BorrowAddsOneOpenRecord ==
  [][(last'.op = "borrow" /\ last'.ok) =>
       LET n == Len(borrow_records)
           r == borrow_records'[n + 1]
       IN /\ Len(borrow_records') = n + 1
          /\ SubSeq(borrow_records', 1, n) = borrow_records
          /\ r.patron_id = last'.patron_id.v
          /\ r.book_id = last'.book_id
          /\ r.return_date = <<>>
          /\ r.borrow_date = now
          /\ r.due_date = r.borrow_date + LoanDays * TicksPerDay
          /\ Available(books', last'.book_id) = Available(books, last'.book_id) - 1
    ]_vars

\* a successful borrow made after the clock has advanced, with an older
\* record in the table
C2_Witness ==
  /\ last.op = "borrow" /\ last.ok
  /\ now > 0
  /\ Len(borrow_records) = 2

\* C3: a successful return_book(patron, book) changes exactly one record, an
\* open record of (patron, book) whose return_date becomes the current time,
\* also when the pair has several open records, and raises the book's
\* available_copies by 1.
C3_ReturnClosesExactlyOne ==
  [][(last'.op = "return" /\ last'.ok) =>
       LET pid == last'.patron_id.v
           b == last'.book_id
           changed == ChangedRows(borrow_records, borrow_records')
       IN /\ Len(borrow_records') = Len(borrow_records)
          /\ Cardinality(changed) = 1
          /\ \A i \in changed :
               /\ borrow_records[i].patron_id = pid
               /\ borrow_records[i].book_id = b
               /\ borrow_records[i].return_date = <<>>
               /\ borrow_records'[i] =
                    [borrow_records[i] EXCEPT !.return_date = <<now>>]
          /\ Available(books', b) = Available(books, b) + 1
    ]_vars

\* a successful return of a pair that had two open records: one is closed,
\* the other is still open
C3_Witness ==
  /\ last.op = "return" /\ last.ok
  /\ OpenOfPair(borrow_records, last.patron_id.v, last.book_id) # {}
  /\ \E i \in 1..Len(borrow_records) :
       /\ borrow_records[i].patron_id = last.patron_id.v
       /\ borrow_records[i].book_id = last.book_id
       /\ borrow_records[i].return_date # <<>>

\* the number of records of a patron that have no return_date
OpenCount(recs, p) ==
  Cardinality({i \in 1..Len(recs) : recs[i].patron_id = p /\ recs[i].return_date = <<>>})

\* the patrons that have a record
PatronsOf(recs) == {recs[i].patron_id : i \in 1..Len(recs)}

\* some book has this id
BookExists(bks, book_id) == \E i \in 1..Len(bks) : bks[i].id = book_id

\* C4: a borrow by a patron who holds 5 or more open records at the time of the
\* call is rejected, with the borrowing-limit failure and no change when the
\* request gets as far as the limit test (the book exists and has a copy
\* available); consequently no patron ever holds more than 5 open records.
C4_BorrowLimit ==
  [][/\ (/\ last'.op = "borrow"
         /\ SixDigitString(last'.patron_id)
         /\ OpenCount(borrow_records, last'.patron_id.v) >= 5)
        => /\ ~last'.ok
           /\ (/\ BookExists(books, last'.book_id)
               /\ Available(books, last'.book_id) > 0)
              => /\ last'.msg = MsgLimit
                 /\ UNCHANGED <<books, borrow_records>>
     /\ \A p \in PatronsOf(borrow_records') : OpenCount(borrow_records', p) <= 5
    ]_vars

\* a patron who holds exactly 5 open records has just been refused a sixth
C4_Witness ==
  /\ last.op = "borrow"
  /\ last.msg = MsgLimit
  /\ OpenCount(borrow_records, last.patron_id.v) = 5

\* an argument that is a string of exactly six decimal digits, 0 to 9
SixDecimalDigits(x) ==
  /\ x.t = "str"
  /\ Len(x.v) = 6
  /\ \A i \in 1..Len(x.v) : \E d \in 1..Len(DecimalDigits) : x.v[i] = DecimalDigits[d]

\* patron_id arguments of every shape in ASCII: None and the strings of up
\* to seven characters over a decimal digit, a letter and a blank
PatronIdUniverse ==
  {PyNone} \cup
  {PyStr(s) : s \in UNION {[1..n -> {"1", "a", " "}] : n \in 0..7}}

\* borrow and return_book accept the same arguments: the strings of six
\* decimal digits
PatronRuleAgrees ==
  \A x \in PatronIdUniverse :
    /\ ~BorrowPatronInvalid(x) <=> SixDecimalDigits(x)
    /\ ReturnPatronValid(StrOrEmpty(x)) <=> SixDecimalDigits(x)

\* C5: borrow and return_book reject every patron_id (a string or None) that
\* is not a string of exactly 6 decimal digits, making no storage call and
\* changing nothing, and they accept the same patron_id values.
C5_PatronIdRule ==
  [][(last'.op \in {"borrow", "return"} /\ last'.patron_id.t \in {"str", "None"}) =>
       /\ PatronRuleAgrees
       /\ IF SixDecimalDigits(last'.patron_id)
          THEN last'.msg \notin {MsgBorrowInvalidPatron, MsgReturnInvalidPatron}
          ELSE /\ ~last'.ok
               /\ last'.msg = (IF last'.op = "borrow" THEN MsgBorrowInvalidPatron
                                                      ELSE MsgReturnInvalidPatron)
               /\ last'.calls = <<>>
               /\ UNCHANGED <<books, borrow_records>>
    ]_vars

\* C6: a borrow with a valid patron_id fails with NotFound when no book has the
\* book_id, and with Unavailable when the book has available_copies <= 0; in
\* both cases no record is created and no available_copies changes.
C6_BorrowNotFoundUnavailable ==
  [][(last'.op = "borrow" /\ SixDigitString(last'.patron_id)) =>
       /\ ~BookExists(books, last'.book_id)
          => /\ ~last'.ok
             /\ last'.msg = MsgBookNotFound
             /\ UNCHANGED <<books, borrow_records>>
       /\ (/\ BookExists(books, last'.book_id)
           /\ Available(books, last'.book_id) <= 0)
          => /\ ~last'.ok
             /\ last'.msg = MsgNotAvailable
             /\ UNCHANGED <<books, borrow_records>>
    ]_vars

\* a borrow of a book whose copies are all out has been refused
C6_Witness ==
  /\ last.op = "borrow"
  /\ last.msg = MsgNotAvailable
  /\ Available(books, last.book_id) = 0
  /\ borrow_records # <<>>

\* C7: a return_book with a valid patron_id fails with NotFound when the
\* book_id is unknown, and with NoActiveLoan when the book exists and no record
\* of (patron_id, book_id) is open; in both cases nothing changes.
C7_ReturnNotFoundNoActiveLoan ==
  [][(last'.op = "return" /\ SixDigitString(last'.patron_id)) =>
       /\ ~BookExists(books, last'.book_id)
          => /\ ~last'.ok
             /\ last'.msg = MsgBookNotFound
             /\ UNCHANGED <<books, borrow_records>>
       /\ (/\ BookExists(books, last'.book_id)
           /\ ~\E i \in 1..Len(borrow_records) :
                 /\ borrow_records[i].patron_id = last'.patron_id.v
                 /\ borrow_records[i].book_id = last'.book_id
                 /\ borrow_records[i].return_date = <<>>)
          => /\ ~last'.ok
             /\ last'.msg = MsgNoActiveBorrow
             /\ UNCHANGED <<books, borrow_records>>
    ]_vars

\* a return_book refused for want of an open record while the pair has a
\* closed record and another patron holds an open record of the same book
C7_Witness ==
  /\ last.op = "return"
  /\ last.msg = MsgNoActiveBorrow
  /\ \E i \in 1..Len(borrow_records) :
       /\ borrow_records[i].patron_id = last.patron_id.v
       /\ borrow_records[i].book_id = last.book_id
       /\ borrow_records[i].return_date # <<>>
  /\ \E i \in 1..Len(borrow_records) :
       /\ borrow_records[i].patron_id # last.patron_id.v
       /\ borrow_records[i].book_id = last.book_id
       /\ borrow_records[i].return_date = <<>>

\* C8: a return_book of a pair that has an open record, on a book whose
\* available_copies >= total_copies, fails with "Available copies cannot
\* exceed total copies" before any write: the record stays open and
\* available_copies is unchanged.
C8_ReturnCopiesGuard ==
  [][(/\ last'.op = "return"
      /\ SixDigitString(last'.patron_id)
      /\ BookExists(books, last'.book_id)
      /\ OpenCount(SelectSeq(borrow_records,
                             LAMBDA r : r.book_id = last'.book_id),
                   last'.patron_id.v) > 0
      /\ get_book_by_id(books, last'.book_id)[1].available_copies
           >= get_book_by_id(books, last'.book_id)[1].total_copies)
     => /\ ~last'.ok
        /\ last'.msg = MsgCopiesExceed
        /\ UNCHANGED <<books, borrow_records>>
    ]_vars

\* a return_book refused by the guard: the pair's record is still open and the
\* book still has all its copies
C8_Witness ==
  /\ last.op = "return"
  /\ last.msg = MsgCopiesExceed
  /\ OpenOfPair(borrow_records, last.patron_id.v, last.book_id) # {}
  /\ Available(books, last.book_id) = get_book_by_id(books, last.book_id)[1].total_copies

\* C9: no record is ever deleted or rewritten: a record is created open, by a
\* borrow; its return_date is set once, to the current time, by a return_book
\* of its pair; once set the return_date never changes.
C9_RecordLifecycle ==
  [][/\ Len(borrow_records') >= Len(borrow_records)
     /\ \A i \in 1..Len(borrow_records) :
          /\ borrow_records'[i].patron_id = borrow_records[i].patron_id
          /\ borrow_records'[i].book_id = borrow_records[i].book_id
          /\ borrow_records'[i].borrow_date = borrow_records[i].borrow_date
          /\ borrow_records'[i].due_date = borrow_records[i].due_date
          /\ borrow_records[i].return_date # <<>>
             => borrow_records'[i].return_date = borrow_records[i].return_date
          /\ (borrow_records[i].return_date = <<>> /\ borrow_records'[i].return_date # <<>>)
             => /\ last'.op = "return"
                /\ last'.patron_id.v = borrow_records[i].patron_id
                /\ last'.book_id = borrow_records[i].book_id
                /\ borrow_records'[i].return_date = <<now>>
     /\ \A i \in (Len(borrow_records) + 1)..Len(borrow_records') :
          /\ borrow_records'[i].return_date = <<>>
          /\ last'.op = "borrow"
    ]_vars

\* a pair borrowed, returned, borrowed again later and returned again: two
\* closed records with different return dates
C9_Witness ==
  \E i, j \in 1..Len(borrow_records) :
    /\ i < j
    /\ borrow_records[i].patron_id = borrow_records[j].patron_id
    /\ borrow_records[i].book_id = borrow_records[j].book_id
    /\ borrow_records[i].return_date # <<>>
    /\ borrow_records[j].return_date # <<>>
    /\ borrow_records[i].return_date # borrow_records[j].return_date

\* C10: there is at most one open borrow record per (patron_id, book_id) pair.
C10_AtMostOneOpenPerPair ==
  \A i, j \in 1..Len(borrow_records) :
    (/\ borrow_records[i].patron_id = borrow_records[j].patron_id
     /\ borrow_records[i].book_id = borrow_records[j].book_id
     /\ borrow_records[i].return_date = <<>>
     /\ borrow_records[j].return_date = <<>>)
    => i = j

(***************************************************************************)
(* Properties of the fee policy.                                           *)
(***************************************************************************)
\* the calendar day an instant falls on
DayOf(t) == CHOOSE n \in 0..t : n * TicksPerDay <= t /\ t < (n + 1) * TicksPerDay

\* the fee of the policy, by its three pieces, in cents
PolicyFee(d) ==
  IF d <= FeeFirstDays THEN FeeFirstRate * d
  ELSE IF FeeFirstRate * FeeFirstDays + FeeLaterRate * (d - FeeFirstDays) <= FeeCap
    THEN FeeFirstRate * FeeFirstDays + FeeLaterRate * (d - FeeFirstDays)
  ELSE FeeCap

\* the instant the assessment of a record stops at
StopOf(r) == IF r.return_date = <<>> THEN now ELSE r.return_date[1]

\* the days overdue of a record, by calendar days
OverdueOf(r) ==
  IF DayOf(StopOf(r)) > DayOf(r.due_date)
  THEN DayOf(StopOf(r)) - DayOf(r.due_date)
  ELSE 0

\* the indexes of the records of the pair a fee lookup was made for
PairRows(patron_id, book_id) ==
  {i \in 1..Len(borrow_records) :
     /\ borrow_records[i].patron_id = StrOf(patron_id)
     /\ borrow_records[i].book_id = book_id}

\* C11: for every days_overdue d >= 0 the fee is
\* min(15.00, 0.50*min(d,7) + 1.00*max(d-7,0)); fee(0) = 0.00, fee(5) = 2.50,
\* fee(10) = 6.50 and fee(45) = 15.00.
C11_FeeFormula ==
  /\ \A d \in 0..MaxDaysOverdue : FeeAmount(d) = PolicyFee(d)
  /\ last.op = "late_fee" =>
       /\ last.fee_amount = PolicyFee(last.days_overdue)
       /\ last.days_overdue = 0 => last.fee_amount = 0
       /\ last.days_overdue = 5 => last.fee_amount = 250
       /\ last.days_overdue = 10 => last.fee_amount = 650
       /\ last.days_overdue = 45 => last.fee_amount = 1500

\* a lookup of a loan that is 45 days overdue
C11_Witness ==
  /\ last.op = "late_fee"
  /\ last.days_overdue = 45
  /\ last.fee_amount = FeeCap

\* C12: the fee never decreases as the days overdue grow, is never negative,
\* never exceeds 15.00 and is exactly 15.00 from 30 days overdue on.
C12_FeeMonotoneCapped ==
  /\ \A d \in 0..MaxDaysOverdue :
       /\ 0 <= FeeAmount(d) /\ FeeAmount(d) <= 1500
       /\ d >= 30 => FeeAmount(d) = 1500
       /\ \A e \in d..MaxDaysOverdue : FeeAmount(d) <= FeeAmount(e)
  /\ last.op = "late_fee" =>
       /\ 0 <= last.fee_amount /\ last.fee_amount <= 1500
       /\ last.days_overdue >= 30 => last.fee_amount = 1500

\* a lookup of a loan that is exactly 30 days overdue
C12_Witness ==
  /\ last.op = "late_fee"
  /\ last.days_overdue = 30
  /\ last.fee_amount = 1500

\* C13: days_overdue is max(0, day of the stop instant - day of due_date),
\* the stop instant being the return_date of a closed record and the current
\* time for an open one; the time of day of neither matters: a stop on the
\* due day gives 0, a stop on the next day gives 1.
C13_DaysOverdueByCalendarDay ==
  (last.op = "late_fee" /\ last.row # <<>>) =>
    LET r == borrow_records[last.row[1]]
    IN /\ last.days_overdue = OverdueOf(r)
       /\ DayOf(StopOf(r)) = DayOf(r.due_date) => last.days_overdue = 0
       /\ DayOf(StopOf(r)) = DayOf(r.due_date) + 1 => last.days_overdue = 1

\* a lookup of a record due at a late hour and returned in the first hour of
\* the next day, less than a day later: 1 day overdue
C13_Witness ==
  /\ last.op = "late_fee" /\ last.row # <<>>
  /\ LET r == borrow_records[last.row[1]]
     IN /\ r.return_date # <<>>
        /\ r.return_date[1] > r.due_date
        /\ r.return_date[1] - r.due_date < TicksPerDay
        /\ last.days_overdue = 1

\* C14: the fee lookup of a pair that has no borrow record returns
\* fee_amount 0.00 and days_overdue 0, and changes no state.
C14_NoRecordZeroFee ==
  [][(last'.op = "late_fee" /\ PairRows(last'.patron_id, last'.book_id) = {})
     => /\ last'.fee_amount = 0
        /\ last'.days_overdue = 0
        /\ UNCHANGED <<books, borrow_records, now>>
    ]_vars

\* a lookup of a pair without a record while another pair has an overdue loan
C14_Witness ==
  /\ last.op = "late_fee"
  /\ PairRows(last.patron_id, last.book_id) = {}
  /\ last.fee_amount = 0
  /\ \E i \in 1..Len(borrow_records) : OverdueOf(borrow_records[i]) > 0

\* C15: when a pair has several records the fee lookup assesses one with the
\* latest borrow_date, open or closed, and no older one.
C15_LatestRecordAssessed ==
  (last.op = "late_fee" /\ PairRows(last.patron_id, last.book_id) # {}) =>
    /\ last.row # <<>>
    /\ last.row[1] \in PairRows(last.patron_id, last.book_id)
    /\ \A j \in PairRows(last.patron_id, last.book_id) :
         borrow_records[j].borrow_date <= borrow_records[last.row[1]].borrow_date
    /\ last.days_overdue = OverdueOf(borrow_records[last.row[1]])
    /\ last.fee_amount = PolicyFee(OverdueOf(borrow_records[last.row[1]]))

\* a lookup of a pair whose latest record is closed while an older record of
\* the pair is open and has a different assessment
C15_Witness ==
  /\ last.op = "late_fee" /\ last.row # <<>>
  /\ borrow_records[last.row[1]].return_date # <<>>
  /\ \E j \in PairRows(last.patron_id, last.book_id) :
       /\ borrow_records[j].borrow_date < borrow_records[last.row[1]].borrow_date
       /\ borrow_records[j].return_date = <<>>
       /\ PolicyFee(OverdueOf(borrow_records[j])) # last.fee_amount

\* C16: the late fee of a successful return_book is the assessment of the
\* record this return closed, its due_date against its new return_date, and
\* the message carries "Late fee: $X.XX" exactly when that fee is above 0.
C16_ReturnFeeOfClosedRecord ==
  [][(last'.op = "return" /\ last'.ok) =>
       \A i \in ChangedRows(borrow_records, borrow_records') :
         LET fee == PolicyFee(OverdueOf(borrow_records'[i]))
         IN /\ last'.fee = fee
            /\ last'.late_fee # <<>> <=> fee > 0
            /\ last'.late_fee # <<>> => last'.late_fee[1] = fee
    ]_vars

(***************************************************************************)
(* Properties of the catalog.                                              *)
(***************************************************************************)
\* the number of blanks (whitespace characters) a string starts with, and
\* ends with
LeadingBlanks(s) ==
  Cardinality({i \in 1..Len(s) : \A j \in 1..i : s[j] \in Whitespace})
TrailingBlanks(s) ==
  Cardinality({i \in 1..Len(s) : \A j \in i..Len(s) : s[j] \in Whitespace})

\* a string that is empty or all blanks
Blank(s) == LeadingBlanks(s) = Len(s)

\* a string without the blanks around it
Trimmed(s) ==
  IF Blank(s) THEN <<>> ELSE SubSeq(s, LeadingBlanks(s) + 1, Len(s) - TrailingBlanks(s))

\* the arguments of an add_book that the validation has to refuse
AddArgsInvalid(r) ==
  \/ Blank(r.title) \/ Len(Trimmed(r.title)) > 200
  \/ Blank(r.author) \/ Len(Trimmed(r.author)) > 100
  \/ Len(r.isbn) # 13
  \/ r.total_copies.t # "int" \/ r.total_copies.v < 1

ValidationMsgs ==
  {MsgTitleRequired, MsgTitleTooLong, MsgAuthorRequired, MsgAuthorTooLong,
   MsgIsbnLength, MsgCopies}

\* C17: add_book fails with a validation message and stores nothing when the
\* title or the author is blank or longer than 200 (100) characters after
\* trimming, the isbn is not 13 long or total_copies is not a positive
\* integer; otherwise the validation lets the call through, a title of 200
\* and an author of 100 trimmed characters included.
C17_AddBookValidation ==
  [][last'.op = "add_book" =>
       IF AddArgsInvalid(last')
       THEN /\ ~last'.ok
            /\ last'.msg \in ValidationMsgs
            /\ books' = books
       ELSE last'.msg \notin ValidationMsgs
    ]_vars

\* a title of 201 characters is refused while a book with a title of 200 and
\* an author of 100 characters is in the catalog
C17_Witness ==
  /\ last.op = "add_book" /\ ~last.ok
  /\ last.msg = MsgTitleTooLong
  /\ \E i \in 1..Len(books) :
       Len(books[i].title) = 200 /\ Len(books[i].author) = 100

\* C18: add_book with the ISBN of a stored book fails, with the duplicate
\* message when its arguments are valid, and stores nothing; no two stored
\* books ever share an ISBN.
C18_NoDuplicateIsbn ==
  /\ [](\A i, j \in 1..Len(books) : books[i].isbn = books[j].isbn => i = j)
  /\ [][(/\ last'.op = "add_book"
         /\ \E i \in 1..Len(books) : books[i].isbn = last'.isbn)
        => /\ ~last'.ok
           /\ books' = books
           /\ ~AddArgsInvalid(last') => last'.msg = MsgDuplicate
       ]_vars

\* an add_book refused as a duplicate while the catalog holds two books
C18_Witness ==
  /\ last.op = "add_book"
  /\ last.msg = MsgDuplicate
  /\ Len(books) = 2

\* C19: after a successful add_book(title, author, isbn, n) the lookup by that
\* ISBN returns a book with available_copies = total_copies = n and with the
\* trimmed title and author.
C19_AddThenLookup ==
  [][(last'.op = "add_book" /\ last'.ok) =>
       LET found == get_book_by_isbn(books', last'.isbn)
       IN /\ found # <<>>
          /\ found[1].total_copies = last'.total_copies.v
          /\ found[1].available_copies = last'.total_copies.v
          /\ found[1].title = Trimmed(last'.title)
          /\ found[1].author = Trimmed(last'.author)
          /\ found[1].isbn = last'.isbn
          /\ Len(books') = Len(books) + 1
          /\ SubSeq(books', 1, Len(books)) = books
    ]_vars

\* a second book added with 2 copies and blanks around its title
C19_Witness ==
  /\ last.op = "add_book" /\ last.ok
  /\ Len(books) = 2
  /\ last.total_copies.v = 2
  /\ Len(Trimmed(last.title)) < Len(last.title)

\* C20: list_catalog returns one row per stored book, in insertion order,
\* with the book's fields, and a row's actions is "Borrow" exactly when the
\* book's available_copies is above 0 at the time of the call.
C20_CatalogRows ==
  last.op = "catalog" =>
    /\ Len(last.rows) = Len(books)
    /\ \A i \in 1..Len(books) :
         /\ last.rows[i].book_id = books[i].id
         /\ last.rows[i].book_id = i
         /\ last.rows[i].title = books[i].title
         /\ last.rows[i].author = books[i].author
         /\ last.rows[i].isbn = books[i].isbn
         /\ last.rows[i].available_copies = books[i].available_copies
         /\ last.rows[i].total_copies = books[i].total_copies
         /\ last.rows[i].actions \in {"Borrow", ""}
         /\ last.rows[i].actions = "Borrow" <=> books[i].available_copies > 0

\* a listing of two books: the only copy of one is borrowed and its row has
\* no action, the only copy of the other was borrowed and returned and its
\* row offers "Borrow" again
C20_Witness ==
  /\ last.op = "catalog"
  /\ \E i, j \in 1..Len(last.rows) :
       /\ last.rows[i].actions = "" /\ last.rows[i].total_copies = 1
       /\ last.rows[j].actions = "Borrow" /\ last.rows[j].total_copies = 1
       /\ \E k \in 1..Len(borrow_records) :
            /\ borrow_records[k].book_id = last.rows[j].book_id
            /\ borrow_records[k].return_date # <<>>

(***************************************************************************)
(* Properties of searching.                                                *)
(***************************************************************************)
\* the upper-case letters with their lower-case forms
CasePairs == {<<c, LowerOf[c]>> : c \in DOMAIN LowerOf}

\* two strings that differ at most in the case of their letters
SameIgnoringCase(a, b) ==
  /\ Len(a) = Len(b)
  /\ \A i \in 1..Len(a) :
       a[i] = b[i] \/ <<a[i], b[i]>> \in CasePairs \/ <<b[i], a[i]>> \in CasePairs

\* the text of an argument; a missing argument has the empty text
GivenText(x) == IF x.t = "str" THEN x.v ELSE <<>>

\* the type names a search understands
TypeNames == {<<"t", "i", "t", "l", "e">>, <<"a", "u", "t", "h", "o", "r">>,
              <<"i", "s", "b", "n">>}

\* the argument names the type, whatever its case and the blanks around it
NamesType(x, name) == SameIgnoringCase(Trimmed(GivenText(x)), name)

\* the field holds the term somewhere, letter case ignored
HoldsIgnoringCase(field, term) ==
  \E i \in 0..(Len(field) - Len(term)) :
    SameIgnoringCase(SubSeq(field, i + 1, i + Len(term)), term)

\* the rows are the rows of exactly the books in Ids, in catalog order, each
\* with the book's fields and "Borrow" exactly when a copy is available
RowsOfBooks(rows, Ids) ==
  /\ Len(rows) = Cardinality(Ids)
  /\ {rows[i].book_id : i \in 1..Len(rows)} = Ids
  /\ \A i, j \in 1..Len(rows) : i < j => rows[i].book_id < rows[j].book_id
  /\ \A i \in 1..Len(rows) :
       \E k \in 1..Len(books) :
         /\ books[k].id = rows[i].book_id
         /\ rows[i] = [book_id |-> books[k].id, title |-> books[k].title,
                       author |-> books[k].author, isbn |-> books[k].isbn,
                       available_copies |-> books[k].available_copies,
                       total_copies |-> books[k].total_copies,
                       actions |-> IF books[k].available_copies >= 1
                                   THEN "Borrow" ELSE ""]

\* the ids of the books whose title, or author, holds the text
TitleHolders(text) ==
  {books[k].id : k \in {n \in 1..Len(books) : HoldsIgnoringCase(books[n].title, text)}}
AuthorHolders(text) ==
  {books[k].id : k \in {n \in 1..Len(books) : HoldsIgnoringCase(books[n].author, text)}}

\* C21 as stated: a search whose type argument is not one of the strings
\* title, author, isbn returns an empty sequence.
C21_OtherTypeEmpty_AsGiven ==
  (last.op = "search" /\ GivenText(last.search_type) \notin TypeNames)
    => last.rows = <<>>

\* C21: a search whose type, trimmed and lower-cased, is not title, author or
\* isbn (an empty or missing type included) returns an empty sequence, for
\* every term and every catalog content.
C21_OtherTypeEmpty ==
  (last.op = "search" /\ \A name \in TypeNames : ~NamesType(last.search_type, name))
    => last.rows = <<>>

\* a search of an unknown type and one of a missing type find nothing in a
\* catalog in which the term is part of a title
C21_Witness ==
  /\ last.op = "search"
  /\ last.search_type \in {PyNone, PyStr(<<"g", "e", "n", "r", "e">>)}
  /\ last.search_term = PyStr(<<"a">>)
  /\ TitleHolders(<<"a">>) # {}
  /\ last.rows = <<>>

\* C22: a search by isbn returns exactly the books whose stored ISBN equals
\* the term as given, untrimmed and unlowered.
C22_IsbnExactAsGiven ==
  (last.op = "search" /\ last.search_type = PyStr(<<"i", "s", "b", "n">>))
    => RowsOfBooks(last.rows,
         {books[k].id : k \in {n \in 1..Len(books) :
                                 books[n].isbn = GivenText(last.search_term)}})

\* C23: a search by title (author) returns exactly the books whose title
\* (author) contains the trimmed term, letter case ignored, each as a catalog
\* row with "Borrow" exactly when a copy is available.
C23_TextSearch ==
  last.op = "search" =>
    /\ NamesType(last.search_type, <<"t", "i", "t", "l", "e">>)
         => RowsOfBooks(last.rows, TitleHolders(Trimmed(GivenText(last.search_term))))
    /\ NamesType(last.search_type, <<"a", "u", "t", "h", "o", "r">>)
         => RowsOfBooks(last.rows, AuthorHolders(Trimmed(GivenText(last.search_term))))

\* a title search whose padded term differs in case from the one title that
\* holds it, the book found having no copy left
C23_Witness ==
  /\ last.op = "search"
  /\ last.search_type = PyStr(<<"t", "i", "t", "l", "e">>)
  /\ last.search_term = PyStr(<<"\t", "a", "l", "E", " ">>)
  /\ Len(books) >= 2
  /\ Len(last.rows) = 1
  /\ last.rows[1].title = <<"T", "a", "l", "e">>
  /\ last.rows[1].actions = ""

\* C24: a search with an empty term and type title returns no rows, whatever
\* the catalog holds.
C24_EmptyTermNoRows ==
  (/\ last.op = "search"
   /\ last.search_type = PyStr(<<"t", "i", "t", "l", "e">>)
   /\ last.search_term = PyStr(<<>>))
    => last.rows = <<>>

(***************************************************************************)
(* Properties of the status report.                                        *)
(***************************************************************************)
\* the indexes of the records, and of the open records, of a patron
RecordsOf(p) == {i \in 1..Len(borrow_records) : borrow_records[i].patron_id = p}
OpenRecordsOf(p) == {i \in RecordsOf(p) : borrow_records[i].return_date = <<>>}

\* the sum of the own fee assessments of the records in S
RECURSIVE OwnFees(_)
OwnFees(S) ==
  IF S = {} THEN 0
  ELSE LET i == CHOOSE x \in S : TRUE
       IN PolicyFee(OverdueOf(borrow_records[i])) + OwnFees(S \ {i})

\* the title of the book of a record
TitleOf(r) == books[CHOOSE k \in 1..Len(books) : books[k].id = r.book_id].title

\* the history entry shows the record: its book, title and calendar days
ShowsRecord(e, r) ==
  /\ e.book_id = r.book_id
  /\ e.title = TitleOf(r)
  /\ e.borrow_date = DateText(r.borrow_date)
  /\ e.return_date = IF r.return_date = <<>> THEN <<>> ELSE <<DateText(r.return_date[1])>>

\* a date text YYYY-MM-DD read as the number YYYYMMDD: dates are in the order
\* of these numbers
RECURSIVE IsoNumber(_)
IsoNumber(text) ==
  IF text = <<>> THEN 0
  ELSE IF text[Len(text)] = "-" THEN IsoNumber(SubSeq(text, 1, Len(text) - 1))
  ELSE 10 * IsoNumber(SubSeq(text, 1, Len(text) - 1))
         + (CHOOSE d \in 0..9 : DecimalDigits[d + 1] = text[Len(text)])

\* C25: the report's borrowed_count is the length of current_loans, which has
\* one entry per open record of the patron, and total_late_fees is the sum,
\* over the patron's open records only, of each record's own fee assessment.
C25_ReportCountsAndFees ==
  last.op = "status" =>
    /\ last.borrowed_count = Len(last.current_loans)
    /\ Len(last.current_loans) = Cardinality(OpenRecordsOf(last.patron_id.v))
    /\ last.total_late_fees = OwnFees(OpenRecordsOf(last.patron_id.v))

\* C26: the history of the report holds every record of the patron, open and
\* closed, and no other record, ordered by borrow_date ascending; every
\* current loan appears in it with a null return_date.
C26_HistoryComplete ==
  last.op = "status" =>
    LET own == RecordsOf(last.patron_id.v)
        n == Len(last.history)
    IN /\ n = Cardinality(own)
       /\ \E f \in [1..n -> own] :
            /\ \A a, b \in 1..n : a # b => f[a] # f[b]
            /\ \A a \in 1..n : ShowsRecord(last.history[a], borrow_records[f[a]])
            /\ \A a, b \in 1..n :
                 a < b => borrow_records[f[a]].borrow_date <= borrow_records[f[b]].borrow_date
       /\ \A a, b \in 1..n :
            a < b => IsoNumber(last.history[a].borrow_date)
                       <= IsoNumber(last.history[b].borrow_date)
       /\ \A c \in 1..Len(last.current_loans) :
            \E a \in 1..n :
              /\ last.history[a].book_id = last.current_loans[c].book_id
              /\ last.history[a].return_date = <<>>

\* a report whose history shows a returned loan before a later, open loan of
\* another book, while the other patron holds a book too
C26_Witness ==
  /\ last.op = "status"
  /\ Len(last.history) = 2
  /\ last.history[1].return_date # <<>>
  /\ last.history[2].return_date = <<>>
  /\ IsoNumber(last.history[1].borrow_date) < IsoNumber(last.history[2].borrow_date)
  /\ last.history[1].title # last.history[2].title
  /\ Len(last.current_loans) = 1
  /\ Len(borrow_records) = 3
  /\ borrow_records[1].patron_id # last.patron_id.v

(***************************************************************************)
(* Properties of payment settlement.                                       *)
(***************************************************************************)
\* C27: pay_late_fees never calls the gateway's charge operation when the
\* patron_id is not 6 digits, the book_id is unknown, the fee assessment lacks
\* the fee field or the fee is zero or negative; it then returns a failure
\* with no transaction identifier.
C27_NoChargeWithoutDebt ==
  (/\ last.op = "pay"
   /\ \/ ~SixDigitString(last.patron_id)
      \/ ~BookExists(books, last.book_id)
      \/ "fee_amount" \notin DOMAIN last.fee_info
      \/ last.fee_info.fee_amount < 1)
    => /\ last.gateway_calls = <<>>
       /\ ~last.ok
       /\ last.transaction_id = <<>>

\* a payment for a loan that is not overdue: the patron and the book are
\* valid, the computed fee is 0.00, the gateway is ready and is not called
C27_Witness ==
  /\ last.op = "pay"
  /\ SixDigitString(last.patron_id)
  /\ BookExists(books, last.book_id)
  /\ PairRows(last.patron_id, last.book_id) # {}
  /\ last.fee_info = [fee_amount |-> 0, days_overdue |-> 0]
  /\ last.outcome.kind = "returned" /\ last.outcome.success
  /\ last.error = "NoFeesOwed"
  /\ last.gateway_calls = <<>>

\* C28: a refund of more than 15.00 fails without a gateway call; a refund of
\* at most 15.00 makes exactly one gateway refund call, whatever the gateway
\* answers.
C28_RefundLimitAndOneCall ==
  last.op = "refund" =>
    /\ last.amount > 1500 => (~last.ok /\ last.gateway_calls = <<>>)
    /\ last.amount <= 1500 =>
         /\ Len(last.gateway_calls) = 1
         /\ last.gateway_calls[1] = [name |-> "refund_payment",
                                     transaction_id |-> last.transaction_id,
                                     amount |-> last.amount]

\* a refund of exactly 15.00 that the gateway answers with a fault
C28_Witness ==
  /\ last.op = "refund"
  /\ last.amount = 1500
  /\ last.outcome.kind = "raised"
  /\ Len(last.gateway_calls) = 1

\* C29: when the gateway's charge or refund operation reports failure or
\* raises, the operation returns a failure that carries the gateway's
\* message; nothing is raised to the caller and the gateway is called once.
C29_GatewayFailureReported ==
  (/\ last.op \in {"pay", "refund"}
   /\ last.gateway_calls # <<>>
   /\ (last.outcome.kind = "raised" \/ ~last.outcome.success))
    => /\ "raised" \notin DOMAIN last
       /\ ~last.ok
       /\ last.msg = last.outcome.message
       /\ Len(last.gateway_calls) = 1

\* a payment of an overdue loan's fee during which the gateway raises
C29_Witness ==
  /\ last.op = "pay"
  /\ last.outcome.kind = "raised"
  /\ last.gateway_calls # <<>>
  /\ last.gateway_calls[1].amount = 1500
  /\ last.msg = "Network timeout"

(***************************************************************************)
(* Properties of the results.                                              *)
(***************************************************************************)
\* C30: every public operation returns a result value for every input, a
\* patron_id that is not a string included, and none raises to the caller.
C30_NothingRaised ==
  last.op \in {"add_book", "borrow", "return", "late_fee", "search", "status"}
    => "raised" \notin DOMAIN last

(***************************************************************************)
(* Properties of the two storage writes of a loan.                         *)
(***************************************************************************)
\* the operation called the storage function with this name
Called(result, name) == \E i \in 1..Len(result.calls) : result.calls[i] = name

\* C31: a borrow reports success only if the record insertion and the
\* availability decrement both succeeded; when either write reports failure
\* (the write was called and its table is as it was) the borrow returns a
\* failure with the storage error of that write.
C31_BorrowNeedsBothWrites ==
  [][last'.op = "borrow" =>
       /\ last'.ok =>
            /\ Len(borrow_records') = Len(borrow_records) + 1
            /\ Available(books', last'.book_id) = Available(books, last'.book_id) - 1
       /\ (Called(last', "insert_borrow_record") /\ borrow_records' = borrow_records)
            => /\ ~last'.ok
               /\ last'.msg = MsgBorrowRecordDbError
       /\ (Called(last', "update_book_availability") /\ books' = books)
            => /\ ~last'.ok
               /\ last'.msg = MsgBorrowAvailDbError
    ]_vars

\* a borrow whose record was inserted and whose decrement failed
C31_Witness ==
  /\ last.op = "borrow"
  /\ ~last.ok
  /\ last.msg = MsgBorrowAvailDbError
  /\ \E i \in 1..Len(borrow_records) :
       /\ borrow_records[i].patron_id = last.patron_id.v
       /\ borrow_records[i].book_id = last.book_id
       /\ borrow_records[i].return_date = <<>>
  /\ Available(books, last.book_id) = get_book_by_id(books, last.book_id)[1].total_copies

\* the number of open records of a book
OpenOfBook(recs, book_id) ==
  Cardinality({i \in 1..Len(recs) : recs[i].book_id = book_id /\ recs[i].return_date = <<>>})

\* C32: with every storage write succeeding, in every reachable state each
\* book has available_copies + (its open borrow records) = total_copies.
C32_CopiesAccounted ==
  \A i \in 1..Len(books) :
    books[i].available_copies + OpenOfBook(borrow_records, books[i].id)
      = books[i].total_copies

\* a book of two copies with one copy out, after a borrow, a return and a
\* second borrow
C32_Witness ==
  /\ Len(borrow_records) = 2
  /\ borrow_records[1].return_date # <<>>
  /\ borrow_records[2].return_date = <<>>
  /\ \E i \in 1..Len(books) :
       /\ books[i].id = borrow_records[2].book_id
       /\ books[i].total_copies = 2
       /\ books[i].available_copies = 1

\* C34: with every storage write succeeding, a return_book for a pair that
\* has an open record is never rejected by the guard on available_copies >=
\* total_copies: it succeeds.
C34_ReturnOfOpenLoanSucceeds ==
  [][(/\ last'.op = "return"
      /\ SixDigitString(last'.patron_id)
      /\ \E i \in 1..Len(borrow_records) :
           /\ borrow_records[i].patron_id = last'.patron_id.v
           /\ borrow_records[i].book_id = last'.book_id
           /\ borrow_records[i].return_date = <<>>)
       => /\ last'.ok
          /\ last'.msg # MsgCopiesExceed
    ]_vars

\* a successful return of one of two open loans of a book of two copies
C34_Witness ==
  /\ last.op = "return" /\ last.ok
  /\ OpenOfBook(borrow_records, last.book_id) = 1
  /\ Available(books, last.book_id) = 1
  /\ get_book_by_id(books, last.book_id)[1].total_copies = 2

\* C33: a borrow or return_book that reports a failure leaves every book's
\* available_copies and all borrow records unchanged, also when its first
\* storage write succeeded and its second failed.
C33_FailureChangesNothing ==
  [][(last'.op \in {"borrow", "return"} /\ ~last'.ok)
       => (books' = books /\ borrow_records' = borrow_records)
    ]_vars

(***************************************************************************)
(* Properties of the fee as time passes.                                   *)
(***************************************************************************)
\* C36: as the clock advances with no other operation, the assessment of a
\* pair whose latest record is closed does not change, and the assessment of
\* a pair whose latest record is open never decreases and stays at 15.00
\* once it has reached it.
C36_FeeOverTime ==
  [][last'.op = "tick" =>
       \A p \in {PatronA, PatronB}, b \in BookIdArgs :
         \A before \in calculate_late_fee_for_book(borrow_records, now, p, b) :
           \A after \in calculate_late_fee_for_book(borrow_records', now', p, b) :
             after.row = before.row =>
               IF before.row = <<>>
                 THEN after.info = before.info
               ELSE IF borrow_records[before.row[1]].return_date # <<>>
                 THEN after.info = before.info
               ELSE /\ after.info.fee_amount >= before.info.fee_amount
                    /\ after.info.days_overdue >= before.info.days_overdue
                    /\ before.info.fee_amount = 1500 => after.info.fee_amount = 1500
    ]_vars

\* the clock has moved on after a book was returned 6 days late: the pair's
\* latest record is closed and its fee is the 3.00 of the return
C36_Witness ==
  /\ last.op = "tick"
  /\ Len(borrow_records) = 1
  /\ borrow_records[1].return_date # <<>>
  /\ DayOf(now) > DayOf(borrow_records[1].return_date[1])
  /\ PolicyFee(OverdueOf(borrow_records[1])) = 300
  /\ \A r \in calculate_late_fee_for_book(borrow_records, now, PatronA, 1) :
       r.info.fee_amount = 300

(***************************************************************************)
(* Properties of a loan as a round trip and of what the operations leave   *)
(* alone.                                                                  *)
(***************************************************************************)
\* the number of closed records of a (patron, book) pair
ClosedOfPairCount(recs, p, b) ==
  Cardinality({i \in 1..Len(recs) :
                 recs[i].patron_id = p /\ recs[i].book_id = b /\ recs[i].return_date # <<>>})

\* C37: a successful borrow(p, b) takes one copy of b, adds one open loan of
\* p and no closed record; a successful return_book(p, b) that follows it
\* immediately gives the copy back, takes the open loan away and leaves one
\* more closed record of (p, b): the counts are those before the borrow.
C37_BorrowReturnRoundTrip ==
  [][/\ (last'.op = "borrow" /\ last'.ok) =>
          /\ Available(books', last'.book_id) = Available(books, last'.book_id) - 1
          /\ OpenCount(borrow_records', last'.patron_id.v)
               = OpenCount(borrow_records, last'.patron_id.v) + 1
          /\ ClosedOfPairCount(borrow_records', last'.patron_id.v, last'.book_id)
               = ClosedOfPairCount(borrow_records, last'.patron_id.v, last'.book_id)
     /\ (/\ last.op = "borrow" /\ last.ok
         /\ last'.op = "return" /\ last'.ok
         /\ last'.patron_id = last.patron_id /\ last'.book_id = last.book_id) =>
          /\ Available(books', last'.book_id) = Available(books, last'.book_id) + 1
          /\ OpenCount(borrow_records', last'.patron_id.v)
               = OpenCount(borrow_records, last'.patron_id.v) - 1
          /\ ClosedOfPairCount(borrow_records', last'.patron_id.v, last'.book_id)
               = ClosedOfPairCount(borrow_records, last'.patron_id.v, last'.book_id) + 1
          /\ Len(borrow_records') = Len(borrow_records)
    ]_vars

\* a return right after the borrow: the newest record of the table is closed
\* at the instant it was opened, and the book has all its copies again
C37_Witness ==
  /\ last.op = "return" /\ last.ok
  /\ Len(borrow_records) >= 1
  /\ LET r == borrow_records[Len(borrow_records)]
     IN /\ r.patron_id = last.patron_id.v /\ r.book_id = last.book_id
        /\ r.return_date = <<r.borrow_date>>
        /\ r.borrow_date = now
  /\ Available(books, last.book_id) = get_book_by_id(books, last.book_id)[1].total_copies
  /\ OpenCount(borrow_records, last.patron_id.v) = 0

\* the book row but for its available_copies
Particulars(book) ==
  [id |-> book.id, title |-> book.title, author |-> book.author,
   isbn |-> book.isbn, total_copies |-> book.total_copies]

\* C38: borrow(p, b) and return_book(p, b) change only the available_copies
\* of book b and the records of the pair (p, b); no book is removed and no
\* other field, book or record changes; add_book leaves every existing book
\* and every borrow record as it is.
C38_Frame ==
  [][/\ last'.op \in {"borrow", "return"} =>
          /\ Len(books') = Len(books)
          /\ \A i \in 1..Len(books) :
               /\ Particulars(books'[i]) = Particulars(books[i])
               /\ books[i].id # last'.book_id => books'[i] = books[i]
          /\ Len(borrow_records') >= Len(borrow_records)
          /\ \A i \in 1..Len(borrow_records') :
               IF i <= Len(borrow_records)
               THEN (\/ borrow_records[i].patron_id # last'.patron_id.v
                     \/ borrow_records[i].book_id # last'.book_id)
                      => borrow_records'[i] = borrow_records[i]
               ELSE /\ borrow_records'[i].patron_id = last'.patron_id.v
                    /\ borrow_records'[i].book_id = last'.book_id
     /\ last'.op = "add_book" =>
          /\ borrow_records' = borrow_records
          /\ Len(books') >= Len(books)
          /\ \A i \in 1..Len(books) : books'[i] = books[i]
    ]_vars

\* a successful borrow of one book while the other book is out with the
\* other patron
C38_Witness ==
  /\ last.op = "borrow" /\ last.ok
  /\ Len(books) = 2
  /\ \E i, j \in 1..Len(borrow_records) :
       /\ borrow_records[i].patron_id = last.patron_id.v
       /\ borrow_records[i].book_id = last.book_id
       /\ borrow_records[j].patron_id # last.patron_id.v
       /\ borrow_records[j].book_id # last.book_id
       /\ borrow_records[j].return_date = <<>>

\* C35: the core takes no lock.  When no borrow call starts while another is
\* in flight (each call runs atomically), no book's available_copies goes
\* below 0 and no patron has more than 5 open records; when the storage calls
\* of two borrow calls interleave, both can pass the tests on the last copy
\* and on the patron's 5th loan and both succeed (the witness).
C35_AtomicCallsKeepBounds ==
  ~inflight.overlapped =>
    /\ \A i \in 1..Len(books) : books[i].available_copies >= 0
    /\ \A p \in PatronsOf(borrow_records) : OpenCount(borrow_records, p) <= BorrowLimit

\* two borrow calls of one patron overlapped, both returned success: the
\* book is at -1 copies and the patron has 6 open records
C35_Witness ==
  /\ inflight.overlapped
  /\ inflight.calls = <<>>
  /\ last.op = "borrow" /\ last.ok
  /\ \E i \in 1..Len(books) : books[i].available_copies < 0
  /\ OpenCount(borrow_records, last.patron_id.v) > BorrowLimit

====
